---------------------------- MODULE Spec2Model ----------------------------
(***************************************************************************)
(* Phase orchestration state machine of the copilot hosting app           *)
(* (server/orchestrator.js): the archetype catalog, the Orchestrator's    *)
(* state and its control surface (selectArchetype, proposeNextPhase,      *)
(* confirmPhase, skipPhase, completeDeploymentPhase).                     *)
(*                                                                         *)
(* JavaScript runs a handler without interruption up to an await on I/O,  *)
(* so every action below is one such segment of a method.  confirmPhase   *)
(* has two segments when the phase calls the Generation Gateway: the part *)
(* up to `await executePhase` (confirmPhase) and the continuation that    *)
(* runs when the gateway settles (confirmPhaseResolve /                   *)
(* confirmPhaseReject).  Between the two any other control call may run.  *)
(*                                                                         *)
(* Phase indices are 0-based as in the source; TLA+ sequences are 1-based,*)
(* so the record of phase k is phases[k + 1].                             *)
(***************************************************************************)
EXTENDS Integers, Sequences, FiniteSets, TLC

(***************************************************************************)
(* Bounds of the model                                                     *)
(***************************************************************************)
\* confirmPhase calls that may be awaiting executePhase at the same time
MaxInFlight == 2

(***************************************************************************)
(* Archetype catalog                                                       *)
(***************************************************************************)
\* A phase template.  Flags absent in the source are falsy there and FALSE
\* here.  name/description/stack are display text and take no part in control.
Template(id, files) ==
  [id |-> id, files |-> files, optional |-> FALSE, isValidation |-> FALSE,
   isDeployment |-> FALSE, isAzureDeployment |-> FALSE]

Optional(t) == [t EXCEPT !.optional = TRUE]
Validation(t) == [t EXCEPT !.isValidation = TRUE]
Deployment(t) == [t EXCEPT !.isDeployment = TRUE]
AzureDeployment(t) == [t EXCEPT !.isAzureDeployment = TRUE]

DockerRun == Deployment(Template("docker-run", <<>>))
AzureDeploy ==
  Optional(AzureDeployment(
    Template("azure-deploy", <<"infra/main.bicep", "infra/main.bicepparam">>)))

FastapiSqlitePhases ==
  << Template("setup", <<"requirements.txt", "README.md", "app/__init__.py",
                         "tests/__init__.py">>),
     Template("database", <<"app/database.py", "app/models.py">>),
     Template("schemas", <<"app/schemas.py">>),
     Optional(Template("auth", <<"app/auth.py">>)),
     Template("crud", <<"app/crud.py">>),
     Template("api", <<"app/main.py", "app/routers/*.py">>),
     Template("tests", <<"tests/test_*.py">>),
     Validation(Template("validate", <<>>)),
     DockerRun,
     AzureDeploy >>

ReactFastapiPhases ==
  << Template("backend-setup",
              <<"backend/requirements.txt", "backend/app/__init__.py">>),
     Template("backend-database",
              <<"backend/app/database.py", "backend/app/models.py",
                "backend/app/schemas.py">>),
     Template("backend-api", <<"backend/app/main.py", "backend/app/auth.py">>),
     Template("backend-tests", <<"backend/tests/test_*.py">>),
     Template("frontend-setup",
              <<"frontend/package.json", "frontend/vite.config.ts",
                "frontend/tsconfig.json">>),
     Template("frontend-components",
              <<"frontend/src/App.tsx", "frontend/src/components/*.tsx",
                "frontend/src/pages/*.tsx">>),
     Template("frontend-api",
              <<"frontend/src/api/*.ts", "frontend/src/hooks/*.ts">>),
     Template("integration", <<"docker-compose.yml", "README.md">>),
     DockerRun,
     AzureDeploy >>

NodejsExpressPhases ==
  << Template("setup", <<"package.json", "README.md", "src/index.js">>),
     Template("database", <<"src/db/database.js", "src/db/migrations/*.js">>),
     Template("models", <<"src/models/*.js">>),
     Template("auth", <<"src/middleware/auth.js", "src/routes/auth.js">>),
     Template("routes", <<"src/routes/*.js">>),
     Template("tests", <<"tests/*.test.js">>),
     Validation(Template("validate", <<>>)),
     DockerRun,
     AzureDeploy >>

\* ARCHETYPES: archetype id -> ordered phase templates
ArchetypeIds == {"fastapi-sqlite", "react-fastapi", "nodejs-express", "custom"}

ARCHETYPES(id) ==
  CASE id = "fastapi-sqlite" -> FastapiSqlitePhases
    [] id = "react-fastapi" -> ReactFastapiPhases
    [] id = "nodejs-express" -> NodejsExpressPhases
    [] id = "custom" -> <<>>


(***************************************************************************)
(* generateCustomPhases: keyword heuristics over the request text          *)
(***************************************************************************)
\* Text is a sequence of characters.  RegExp.test with an alternation of
\* literals and the i flag is a case-insensitive substring search.
UpperLetters ==
  <<"A","B","C","D","E","F","G","H","I","J","K","L","M",
    "N","O","P","Q","R","S","T","U","V","W","X","Y","Z">>
LowerLetters ==
  <<"a","b","c","d","e","f","g","h","i","j","k","l","m",
    "n","o","p","q","r","s","t","u","v","w","x","y","z">>

ToLower(c) ==
  IF \E i \in 1..Len(UpperLetters) : UpperLetters[i] = c
    THEN LowerLetters[CHOOSE i \in 1..Len(UpperLetters) : UpperLetters[i] = c]
    ELSE c

Contains(text, kw) ==
  \E i \in 1..(Len(text) - Len(kw) + 1) :
    \A j \in 1..Len(kw) : ToLower(text[i + j - 1]) = kw[j]

TestAny(keywords, text) == \E kw \in keywords : Contains(text, kw)

AuthKeywords ==
  { <<"a","u","t","h">>, <<"l","o","g","i","n">>, <<"u","s","e","r">>,
    <<"p","a","s","s","w","o","r","d">>, <<"j","w","t">>,
    <<"s","e","s","s","i","o","n">> }
FrontendKeywords ==
  { <<"f","r","o","n","t","e","n","d">>, <<"r","e","a","c","t">>,
    <<"v","u","e">>, <<"a","n","g","u","l","a","r">>, <<"u","i">>,
    <<"i","n","t","e","r","f","a","c","e">>, <<"w","e","b"," ","a","p","p">> }
DatabaseKeywords ==
  { <<"d","a","t","a","b","a","s","e">>, <<"d","b">>, <<"s","q","l">>,
    <<"p","o","s","t","g","r","e","s">>, <<"m","y","s","q","l">>,
    <<"m","o","n","g","o">>, <<"s","t","o","r","a","g","e">> }

\* A heuristic that looks at the prompt only; C19 tells the two apart.
AttachmentContentIgnored(file) == <<>>

\* attachment?.content || ""
AttachmentContent(file) ==
  IF file.present THEN file.content ELSE <<>>

\* A map that numbers the phases from 1; C17 tells the two apart.
InstantiatePhasesOneBased(templates) ==
  [i \in 1..Len(templates) |->
    [id |-> templates[i].id,
     optional |-> templates[i].optional,
     isValidation |-> templates[i].isValidation,
     isDeployment |-> templates[i].isDeployment,
     isAzureDeployment |-> templates[i].isAzureDeployment,
     index |-> i,
     status |-> "pending",
     files |-> <<>>,
     error |-> ""]]

\* .map((p, index) => ({ ...p, index, status: "pending", files: [] }))
\* The spread copies the template and `files: []` then replaces its files.
InstantiatePhases(templates) ==
  [i \in 1..Len(templates) |->
    [id |-> templates[i].id,
     optional |-> templates[i].optional,
     isValidation |-> templates[i].isValidation,
     isDeployment |-> templates[i].isDeployment,
     isAzureDeployment |-> templates[i].isAzureDeployment,
     index |-> i - 1,
     status |-> "pending",
     files |-> <<>>,
     error |-> ""]]

generateCustomPhases(prompt, file) ==
  LET text == prompt \o AttachmentContent(file)
      hasAuth == TestAny(AuthKeywords, text)
      hasFrontend == TestAny(FrontendKeywords, text)
      hasDatabase == TestAny(DatabaseKeywords, text)
      templates ==
        <<Template("setup", <<>>)>>
        \o (IF hasDatabase
              THEN <<Template("database", <<>>), Template("schemas", <<>>)>>
              ELSE <<>>)
        \o (IF hasAuth THEN <<Template("auth", <<>>)>> ELSE <<>>)
        \o <<Template("core", <<>>), Template("api", <<>>)>>
        \o (IF hasFrontend THEN <<Template("frontend", <<>>)>> ELSE <<>>)
        \o <<Template("tests", <<>>), Template("validate", <<>>)>>
  IN InstantiatePhases(templates)

(***************************************************************************)
(* Inputs explored                                                         *)
(***************************************************************************)
\* "todo api", "DB login", "build a blog"
Prompts ==
  { <<"t","o","d","o"," ","a","p","i">>,
    <<"D","B"," ","l","o","g","i","n">>,
    <<"b","u","i","l","d"," ","a"," ","b","l","o","g">> }
\* no attachment (undefined)
NoAttachment == [present |-> FALSE, content |-> <<>>]
Attachments ==
  { NoAttachment,
    [present |-> TRUE, content |-> <<"s","q","l">>] }
\* archetype ids a caller passes: a fixed archetype with every kind of phase,
\* the custom one, one that is not in the catalog, and one that is not in the
\* catalog but names a property every object inherits
RequestedArchetypes == {"fastapi-sqlite", "custom", "django", "constructor"}
\* The requests explored.  The prompt and the attachment of a request for a
\* fixed archetype take no part in control, so one of each is explored there.
Requests ==
  { r \in [archetype : RequestedArchetypes, prompt : Prompts,
           attachment : Attachments] :
      r.archetype /= "custom"
        => (r.prompt = <<"t","o","d","o"," ","a","p","i">>
              /\ r.attachment = NoAttachment) }
\* file lists the Generation Gateway returns for a generation phase
GeneratedFileLists == { <<"requirements.txt", "README.md">> }
\* ... and for the infrastructure prompt of a cloud-deployment phase
BicepFileLists == { <<"infra/main.bicep", "infra/main.bicepparam">> }
\* indices of the generation phases whose gateway call may fail
FailingIndices == {2}
\* messages of a failing Generation Gateway call
Messages == {"syntax error"}
\* outcome.success of completeDeploymentPhase
Outcomes == {"success", "failure"}

(***************************************************************************)
(* Orchestrator state                                                      *)
(***************************************************************************)
VARIABLES
  userPrompt,         \* state.userPrompt (<<>> before selectArchetype)
  attachment,         \* state.attachment (absent before selectArchetype)
  archetype,          \* state.archetype ("null" before selectArchetype)
  phases,             \* state.phases
  currentPhaseIndex,  \* state.currentPhaseIndex
  status,             \* state.status
  generatedFiles,     \* state.generatedFiles
  errors,             \* state.errors
  executing,          \* indices k whose confirmPhase(k) awaits executePhase
  dispatched,         \* effect phases handed to the host, not yet completed
  emitted,            \* events passed to onEvent by the last segment, in order
                      \* (the log/file/console_trace events the gateway streams
                      \* while confirmPhase awaits it belong to no segment)
  lastCall,           \* the last control call (or continuation), its outcome
  lastProposed,       \* phaseIndex of the latest phase_proposal, -1 if none
  snapshot,           \* what the latest getState call returned (<<>> if none)
  job,                \* the host's job: whether its callback is the orchestrator's
                      \* onEvent, how far startOrchestration got, job.events and
                      \* what was written to each connected listener
  activeJobs,         \* the host's activeJobs: jobId -> prompt and projectDir
  workspaces,         \* the directories under WORKSPACES: name -> what was
                      \* written there and by which job
  copilotClient,      \* the phase generator's shared copilotClient: "null",
                      \* or the state of the client object it refers to
  clientCalls,        \* the getClient calls of the running generations:
                      \* caller -> how far its `await getClient()` got
  legacy              \* a request to the single-shot /generate endpoint: the
                      \* handler's position, its attempt counter and lastLogs,
                      \* and what it has sent on the response

jobsVars == <<activeJobs, workspaces>>
clientVars == <<copilotClient, clientCalls>>
hostVars == <<jobsVars, clientVars, legacy>>
requestVars == <<userPrompt, attachment>>
stateVars ==
  <<archetype, phases, currentPhaseIndex, status, generatedFiles, errors>>
vars ==
  <<userPrompt, attachment, archetype, phases, currentPhaseIndex, status,
    generatedFiles, errors, executing, dispatched, emitted, lastCall,
    lastProposed, snapshot, job, activeJobs, workspaces, copilotClient,
    clientCalls, legacy>>

\* One event handed to onEvent.  phaseStatus is the status of the phase object
\* the event carries, read at emission; warnings are those of the result
\* stored on that phase object (phase.result), none if it has none.
Event(type, phaseIndex, phaseStatus) ==
  [type |-> type, phaseIndex |-> phaseIndex, phaseStatus |-> phaseStatus,
   files |-> <<>>, error |-> "", outcome |-> "", plan |-> <<>>,
   warnings |-> <<>>, partial |-> FALSE]

Call(op, arg, result, error) ==
  [op |-> op, arg |-> arg, result |-> result, error |-> error]

(***************************************************************************)
(* The host's relay: onEvent and broadcastEvent (server index.js)          *)
(***************************************************************************)
\* entries of job.events that the host itself produces: its log and
\* console_trace lines (a run of them is one entry), status, error,
\* phase_error, docker_deployed, azure_deployed
HostEvent(type, phaseIndex) == Event(type, phaseIndex, "")

\* no host job: the orchestrator on its own
NoJob ==
  [hosted |-> FALSE, pc |-> "none", events |-> <<>>,
   listeners |-> [l \in {} |-> <<>>], orchestrators |-> 0]

\* POST /api/generate: job.status "initializing", no event, no listener, no
\* orchestrator created (orchestrators counts the createOrchestrator calls)
NewJob == [NoJob EXCEPT !.hosted = TRUE, !.pc = "initializing"]

\* job.events.push({ type, data }), then sseSend to each of job.listeners
broadcastEvent(j, e) ==
  [j EXCEPT !.events = Append(@, e),
            !.listeners = [l \in DOMAIN @ |-> Append(@[l], e)]]

RECURSIVE broadcastAll(_, _)
broadcastAll(j, es) ==
  IF es = <<>> THEN j
  ELSE broadcastAll(broadcastEvent(j, Head(es)), Tail(es))

ReadyEvents ==
  {"docker_deploy_ready", "azure_deploy_ready", "validation_ready"}

\* The callback startOrchestration gives the orchestrator.  The three *_ready
\* events go to their handler and the callback returns: they are not
\* broadcast.  The handler runs up to its first await inside the call,
\* broadcasting its opening log lines.
onEvent(j, e) ==
  IF e.type \in ReadyEvents
    THEN broadcastEvent(j, HostEvent("log", e.phaseIndex))
    ELSE broadcastEvent(j, e)

\* emit called for each event of a segment, in order
RECURSIVE Relay(_, _)
Relay(j, es) ==
  IF ~j.hosted \/ es = <<>> THEN j
  ELSE Relay(onEvent(j, Head(es)), Tail(es))

\* A rejection that is also reported to the sink as an error event; C16 tells
\* the two apart.
ThrowsAfterEmit(op, result) ==
  /\ lastCall' = Call(op, -1, result, "")
  /\ emitted' = <<Event("error", -1, "")>>
  /\ job' = Relay(job, emitted')
  /\ UNCHANGED <<hostVars, snapshot, requestVars, stateVars, executing,
                 dispatched, lastProposed>>

\* A call that throws before changing anything; result names the error
Throws(op, result) ==
  /\ lastCall' = Call(op, -1, result, "")
  /\ emitted' = <<>>
  /\ job' = Relay(job, emitted')
  /\ UNCHANGED <<hostVars, snapshot, requestVars, stateVars, executing,
                 dispatched, lastProposed>>

InitOrchestrator ==
  /\ userPrompt = <<>>
  /\ attachment = NoAttachment
  /\ archetype = "null"
  /\ phases = <<>>
  /\ currentPhaseIndex = -1
  /\ status = "initializing"
  /\ generatedFiles = <<>>
  /\ errors = <<>>
  /\ executing = {}
  /\ dispatched = {}
  /\ emitted = <<>>
  /\ lastCall = Call("constructor", -1, "ok", "")
  /\ lastProposed = -1
  /\ snapshot = <<>>

\* the host as it starts: no job, WORKSPACES empty
InitJobs ==
  /\ activeJobs = [j \in {} |-> <<>>]
  /\ workspaces = [d \in {} |-> {}]

\* generations that may ask for the client at the same time
MaxCallers == 3
Callers == 1..MaxCallers

\* let copilotClient = null; nothing has called getClient
Idle == [pc |-> "idle", started |-> FALSE]
InitClient ==
  /\ copilotClient = [state |-> "null", constructed |-> 0]
  /\ clientCalls = [c \in Callers |-> Idle]

\* no request to /generate has been made
InitLegacy ==
  legacy = [pc |-> "idle", attempt |-> 0, lastLogs |-> "", tests |-> 0,
            fixes |-> 0, passed |-> FALSE, sent |-> <<>>, ended |-> FALSE]

\* A fresh orchestrator, constructed without an onEvent callback: emit goes
\* nowhere (this.onEvent?.(...)).
Init ==
  /\ job = NoJob
  /\ InitOrchestrator
  /\ InitJobs
  /\ InitClient
  /\ InitLegacy

\* indices a caller may pass: every valid index and one past the end
PhaseArgs == 0..Len(phases)

InRange(phaseIndex) == phaseIndex >= 0 /\ phaseIndex < Len(phases)

(***************************************************************************)
(* selectArchetype                                                         *)
(***************************************************************************)
\* The host calls selectArchetype once per orchestrator (startOrchestration),
\* so the model offers it only while no archetype is selected.
\* ARCHETYPES is an object literal: ARCHETYPES[archetypeId] is also truthy for
\* the property names it inherits from Object.prototype.  For those the
\* unknown-archetype test passes, the request is stored, and
\* archetype.phases.map throws a TypeError on the undefined phases.
InheritedKeys == {"constructor"}

selectArchetype(archetypeId, prompt, file) ==
  /\ archetype = "null"
  /\ IF archetypeId \notin ArchetypeIds \cup InheritedKeys
       THEN Throws("selectArchetype", "UnknownArchetype")
     ELSE IF archetypeId \in InheritedKeys
       THEN /\ archetype' = archetypeId
            /\ userPrompt' = prompt
            /\ attachment' = file
            /\ emitted' = <<>>
            /\ lastCall' = Call("selectArchetype", -1, "TypeError", "")
            /\ UNCHANGED <<phases, currentPhaseIndex, status, generatedFiles,
                           errors, executing, dispatched, lastProposed,
                           snapshot, job, hostVars>>
     ELSE LET newPhases ==
                IF archetypeId = "custom"
                  THEN generateCustomPhases(prompt, file)
                  ELSE InstantiatePhases(ARCHETYPES(archetypeId))
              statusEvents ==
                IF archetypeId = "custom"
                  THEN <<Event("status", -1, "")>> ELSE <<>>
          IN /\ archetype' = archetypeId
             /\ userPrompt' = prompt
             /\ attachment' = file
             /\ phases' = newPhases
             /\ status' = "planning"
             /\ emitted' = statusEvents \o
                  <<[Event("plan", -1, "") EXCEPT !.plan = newPhases]>>
             /\ lastCall' = Call("selectArchetype", -1, "ok", "")
             /\ job' = Relay(job, emitted')
             /\ UNCHANGED <<currentPhaseIndex, generatedFiles, errors,
                            executing, dispatched, lastProposed, snapshot,
                            hostVars>>

(***************************************************************************)
(* getNextPhase / proposeNextPhase                                         *)
(***************************************************************************)
\* A search that takes the last pending phase instead of the first; C18 tells
\* the two apart.
getLastPendingPhase(ps) ==
  LET pending == {k \in 0..(Len(ps) - 1) : ps[k + 1].status = "pending"}
  IN IF pending = {} THEN -1
     ELSE CHOOSE k \in pending : \A j \in pending : k >= j

\* phases.findIndex(p => p.status === "pending"): -1 when there is none
getNextPhase(ps) ==
  LET pending == {k \in 0..(Len(ps) - 1) : ps[k + 1].status = "pending"}
  IN IF pending = {} THEN -1
     ELSE CHOOSE k \in pending : \A j \in pending : k <= j

\* A proposeNextPhase that never declares the run completed; C13 tells the two
\* apart.
ProposeStatusNeverCompleted(ps) == "awaiting_confirmation"

\* What proposeNextPhase does to status, given the phases it reads
ProposeStatus(ps) ==
  IF getNextPhase(ps) = -1 THEN "completed" ELSE "awaiting_confirmation"

\* ... and the event it emits
ProposeEvents(ps, files) ==
  LET next == getNextPhase(ps)
  IN IF next = -1
       THEN <<[Event("completed", -1, "") EXCEPT !.files = files]>>
       ELSE <<Event("phase_proposal", next, ps[next + 1].status)>>

\* ... and the index its phase_proposal names, if it emits one
ProposedAfter(ps, previous) ==
  IF getNextPhase(ps) = -1 THEN previous ELSE getNextPhase(ps)

proposeNextPhase ==
  /\ status' = ProposeStatus(phases)
  /\ emitted' = ProposeEvents(phases, generatedFiles)
  /\ lastProposed' = ProposedAfter(phases, lastProposed)
  /\ lastCall' = Call("proposeNextPhase", -1, "ok", "")
  /\ job' = Relay(job, emitted')
  /\ UNCHANGED <<hostVars, snapshot, requestVars, archetype, phases,
                 currentPhaseIndex, generatedFiles, errors, executing,
                 dispatched>>

(***************************************************************************)
(* executePhase and its results                                            *)
(***************************************************************************)
\* warnings is absent from a result unless executePhase attaches it: <<>>;
\* partial is absent unless the Generation Gateway sets it: FALSE
Result(files, deploymentType, requiresDeployment, requiresValidation) ==
  [files |-> files, deploymentType |-> deploymentType,
   requiresDeployment |-> requiresDeployment,
   requiresValidation |-> requiresValidation,
   warnings |-> <<>>, partial |-> FALSE]

executeDockerDeployment == Result(<<>>, "docker", TRUE, FALSE)
executeValidation == Result(<<>>, "validation", FALSE, TRUE)
\* An executeAzureDeployment that returns the gateway's result as it is,
\* without the two deployment marks; C28 tells the two apart.
executeAzureDeploymentUnmarked(gatewayFiles) ==
  Result(gatewayFiles, "", FALSE, FALSE)

\* the Generation Gateway's files, then deploymentType and requiresDeployment
executeAzureDeployment(gatewayFiles) ==
  Result(gatewayFiles, "azure", TRUE, FALSE)

\* expectedFile.includes("*"): the patterns of the catalog that hold a wildcard
WildcardPatterns ==
  {"app/routers/*.py", "tests/test_*.py", "backend/tests/test_*.py",
   "frontend/src/components/*.tsx", "frontend/src/pages/*.tsx",
   "frontend/src/api/*.ts", "frontend/src/hooks/*.ts",
   "src/db/migrations/*.js", "src/models/*.js", "src/routes/*.js",
   "tests/*.test.js"}

HasWildcard(expectedFile) == expectedFile \in WildcardPatterns

\* The workspace when the gateway has returned writtenFiles: the directory is
\* created empty for the job, write_file is the only writer, and the gateway
\* reports every path it wrote.  generatedFiles holds the paths of the earlier
\* phases.
Workspace(writtenFiles) ==
  {generatedFiles[i] : i \in 1..Len(generatedFiles)}
    \cup {writtenFiles[i] : i \in 1..Len(writtenFiles)}

\* validatePhase(phase, files): one warning for each expected file of the
\* phase object that holds no wildcard and does not exist.  (Its second loop
\* reads the written .py files for deprecated syntax; file contents are not
\* part of the model and the files explored carry none.)
validatePhase(phase, workspace) ==
  LET Missing(expectedFile) ==
        ~HasWildcard(expectedFile) /\ expectedFile \notin workspace
      missing == SelectSeq(phase.files, Missing)
      warnings ==
        [i \in 1..Len(missing) |->
          [warning |-> "Expected file not created", file |-> missing[i]]]
  IN [valid |-> warnings = <<>>, warnings |-> warnings]

\* generatePhaseWithCopilot's result (no deployment fields), then
\* if (!validation.valid) result.warnings = validation.warnings
generatePhase(phase, gatewayFiles) ==
  LET validation == validatePhase(phase, Workspace(gatewayFiles))
  IN [Result(gatewayFiles, "", FALSE, FALSE)
        EXCEPT !.warnings =
          IF ~validation.valid THEN validation.warnings ELSE <<>>]

\* executePhase dispatches on the phase's flags, in this order
executePhase(phase, gatewayFiles) ==
  IF phase.isDeployment THEN executeDockerDeployment
  ELSE IF phase.isAzureDeployment THEN executeAzureDeployment(gatewayFiles)
  ELSE IF phase.isValidation THEN executeValidation
  ELSE generatePhase(phase, gatewayFiles)

\* executePhase reaches generatePhaseWithCopilot for these phases only
UsesGateway(phase) ==
  ~phase.isDeployment /\ (phase.isAzureDeployment \/ ~phase.isValidation)

\* what the Generation Gateway may hand back to executePhase for a phase
\* (nothing where it is not called)
GatewayReturns(phase) ==
  IF ~UsesGateway(phase) THEN {<<>>}
  ELSE IF phase.isAzureDeployment THEN BicepFileLists
  ELSE GeneratedFileLists

\* the Generation Gateway calls that are explored failing as well: the call
\* for phase 2 and the infrastructure call of a cloud-deployment phase
GatewayMayFail(phase) ==
  /\ UsesGateway(phase)
  /\ phase.index \in FailingIndices \/ phase.isAzureDeployment

\* events executePhase emits before its first suspension
ExecuteStartEvents(phase) ==
  IF phase.isDeployment THEN <<Event("log", -1, "")>>
  ELSE IF phase.isAzureDeployment \/ phase.isValidation
    THEN <<Event("log", -1, ""), Event("console_trace", -1, "")>>
  ELSE <<>>

\* the event confirmPhase emits for a result
ResultEventType(result) ==
  IF result.requiresDeployment /\ result.deploymentType = "docker"
    THEN "docker_deploy_ready"
  ELSE IF result.requiresDeployment /\ result.deploymentType = "azure"
    THEN "azure_deploy_ready"
  ELSE IF result.requiresValidation THEN "validation_ready"
  ELSE "phase_complete"

\* A confirmPhase that never proposes the next phase on its own; C8 tells the
\* two apart.
AutoAdvanceNever(result) == FALSE

\* "Automatically propose the next phase (unless deployment is in progress)"
AutoAdvance(result) ==
  ~result.requiresDeployment /\ ~result.requiresValidation

(***************************************************************************)
(* confirmPhase                                                            *)
(***************************************************************************)
\* phaseIndex !== this.getNextPhase()?.index throws
ConfirmAccepted(phaseIndex, ps) ==
  getNextPhase(ps) /= -1 /\ phaseIndex = getNextPhase(ps)

\* phase.status = "in_progress"
Started(ps, phaseIndex) ==
  [ps EXCEPT ![phaseIndex + 1].status = "in_progress"]

\* phase.status = "completed"; phase.files = result.files || []
Completed(ps, phaseIndex, result) ==
  [ps EXCEPT ![phaseIndex + 1].status = "completed",
             ![phaseIndex + 1].files = result.files]

\* A catch block that records nothing in state.errors; C9 tells the two apart.
ErrorsAfterNone(errs, phase, message) == errs

\* what the catch block appends to state.errors
ErrorsAfter(errs, phase, message) ==
  Append(errs, [phase |-> phase.id, error |-> message])

\* A confirmPhase that replaces generatedFiles by the files of the phase; C11
\* tells the two apart.
FilesAfterReplaced(files, result) == result.files

\* A confirmPhase that stores the files on the phase only; C12 tells the two
\* apart.
FilesAfterUnrecorded(files, result) == files

\* this.state.generatedFiles.push(...result.files)
FilesAfter(files, result) == files \o result.files

\* The try block from the return of executePhase on, run on phases ps while the
\* orchestrator status is st: the new phases, generatedFiles and status, the
\* events emitted, the latest proposal and the effect phases handed to the host.
AfterExecute(ps, st, phaseIndex, result) ==
  LET done == Completed(ps, phaseIndex, result)
      allFiles == FilesAfter(generatedFiles, result)
      resultEvent ==
        [Event(ResultEventType(result), phaseIndex, "completed")
           EXCEPT !.files = result.files, !.warnings = result.warnings,
                  !.partial = result.partial]
  IN [phases |-> done,
      generatedFiles |-> allFiles,
      status |-> IF AutoAdvance(result) THEN ProposeStatus(done) ELSE st,
      events |-> <<resultEvent>> \o
        (IF AutoAdvance(result) THEN ProposeEvents(done, allFiles) ELSE <<>>),
      lastProposed |->
        IF AutoAdvance(result) THEN ProposedAfter(done, lastProposed)
        ELSE lastProposed,
      dispatched |->
        IF AutoAdvance(result) THEN dispatched
        ELSE dispatched \cup {phaseIndex}]

\* A call of confirmPhase, up to its first suspension.  For a phase that calls
\* the Generation Gateway that is `await this.executePhase(phase)`.  The
\* executePhase of a validation or docker-deployment phase does no I/O: its
\* await is over before any other request is served, so the call runs through
\* the whole try block in the same step.
confirmPhase(phaseIndex) ==
  IF ~ConfirmAccepted(phaseIndex, phases)
    THEN Throws("confirmPhase", "PhaseMismatch")
  ELSE IF UsesGateway(phases[phaseIndex + 1])
    THEN /\ Cardinality(executing) < MaxInFlight
         /\ phases' = Started(phases, phaseIndex)
         /\ currentPhaseIndex' = phaseIndex
         /\ status' = "generating"
         /\ emitted' = <<Event("phase_start", phaseIndex, "in_progress")>>
                       \o ExecuteStartEvents(phases[phaseIndex + 1])
         /\ executing' = executing \cup {phaseIndex}
         /\ lastCall' = Call("confirmPhase", phaseIndex, "awaiting", "")
         /\ job' = Relay(job, emitted')
         /\ UNCHANGED <<hostVars, snapshot, requestVars, archetype,
                        generatedFiles, errors, dispatched, lastProposed>>
  ELSE LET after ==
             AfterExecute(Started(phases, phaseIndex), "generating", phaseIndex,
                          executePhase(phases[phaseIndex + 1], <<>>))
       IN /\ phases' = after.phases
          /\ currentPhaseIndex' = phaseIndex
          /\ status' = after.status
          /\ generatedFiles' = after.generatedFiles
          /\ emitted' = <<Event("phase_start", phaseIndex, "in_progress")>>
                        \o ExecuteStartEvents(phases[phaseIndex + 1])
                        \o after.events
          /\ lastProposed' = after.lastProposed
          /\ dispatched' = after.dispatched
          /\ lastCall' = Call("confirmPhase", phaseIndex, "resolved", "")
          /\ job' = Relay(job, emitted')
          /\ UNCHANGED <<hostVars, snapshot, requestVars, archetype, errors,
                         executing>>

\* the continuation of confirmPhase after executePhase returned result
confirmPhaseResolveWith(phaseIndex, result) ==
  /\ phaseIndex \in executing
  /\ LET after == AfterExecute(phases, status, phaseIndex, result)
     IN /\ phases' = after.phases
        /\ generatedFiles' = after.generatedFiles
        /\ status' = after.status
        /\ emitted' = after.events
        /\ lastProposed' = after.lastProposed
        /\ dispatched' = after.dispatched
        /\ executing' = executing \ {phaseIndex}
        /\ lastCall' = Call("confirmPhase", phaseIndex, "resolved", "")
        /\ job' = Relay(job, emitted')
        /\ UNCHANGED <<hostVars, snapshot, requestVars, archetype,
                       currentPhaseIndex, errors>>

\* the continuation of confirmPhase after the Generation Gateway returned
confirmPhaseResolve(phaseIndex, gatewayFiles) ==
  confirmPhaseResolveWith(
    phaseIndex, executePhase(phases[phaseIndex + 1], gatewayFiles))

\* the continuation after the Generation Gateway failed: the catch block
confirmPhaseReject(phaseIndex, message) ==
  /\ phaseIndex \in executing
  /\ GatewayMayFail(phases[phaseIndex + 1])
  /\ phases' = [phases EXCEPT ![phaseIndex + 1].status = "error",
                              ![phaseIndex + 1].error = message]
  /\ errors' = ErrorsAfter(errors, phases[phaseIndex + 1], message)
  /\ emitted' = <<[Event("phase_error", phaseIndex, "error")
                     EXCEPT !.error = message]>>
  /\ executing' = executing \ {phaseIndex}
  /\ lastCall' = Call("confirmPhase", phaseIndex, "rejected", message)
  /\ job' = Relay(job, emitted')
  /\ UNCHANGED <<hostVars, snapshot, requestVars, archetype,
                 currentPhaseIndex, status, generatedFiles, dispatched,
                 lastProposed>>

(***************************************************************************)
(* completeDeploymentPhase                                                 *)
(***************************************************************************)
\* phaseIndex is the index of a *_ready event, always a valid one.  j is the
\* host's job as the caller left it.
completeDeploymentPhaseFrom(j, phaseIndex, outcome) ==
  /\ emitted' =
       <<[Event("phase_complete", phaseIndex, phases[phaseIndex + 1].status)
            EXCEPT !.files = phases[phaseIndex + 1].files,
                   !.outcome = outcome]>>
       \o ProposeEvents(phases, generatedFiles)
  /\ status' = ProposeStatus(phases)
  /\ lastProposed' = ProposedAfter(phases, lastProposed)
  /\ lastCall' = Call("completeDeploymentPhase", phaseIndex, "ok", "")
  /\ dispatched' = dispatched \ {phaseIndex}
  /\ job' = Relay(j, emitted')
  /\ UNCHANGED <<hostVars, snapshot, requestVars, archetype, phases,
                 currentPhaseIndex, generatedFiles, errors, executing>>

\* A completeDeploymentPhase that treats a failed outcome as a hard error: the
\* phase is marked error, the failure is recorded and nothing is proposed.
\* C14 tells the two apart.
completeDeploymentPhaseHalting(phaseIndex, outcome) ==
  /\ emitted' =
       IF outcome = "failure"
         THEN <<[Event("phase_error", phaseIndex, "error")
                   EXCEPT !.outcome = outcome]>>
         ELSE <<[Event("phase_complete", phaseIndex,
                       phases[phaseIndex + 1].status)
                   EXCEPT !.files = phases[phaseIndex + 1].files,
                          !.outcome = outcome]>>
              \o ProposeEvents(phases, generatedFiles)
  /\ phases' =
       IF outcome = "failure"
         THEN [phases EXCEPT ![phaseIndex + 1].status = "error"]
         ELSE phases
  /\ errors' =
       IF outcome = "failure"
         THEN Append(errors, [phase |-> phases[phaseIndex + 1].id,
                              error |-> outcome])
         ELSE errors
  /\ status' = IF outcome = "failure" THEN status ELSE ProposeStatus(phases)
  /\ lastProposed' =
       IF outcome = "failure" THEN lastProposed
       ELSE ProposedAfter(phases, lastProposed)
  /\ lastCall' = Call("completeDeploymentPhase", phaseIndex, "ok", "")
  /\ dispatched' = dispatched \ {phaseIndex}
  /\ job' = Relay(job, emitted')
  /\ UNCHANGED <<hostVars, snapshot, requestVars, archetype,
                 currentPhaseIndex, generatedFiles, executing>>

completeDeploymentPhase(phaseIndex, outcome) ==
  completeDeploymentPhaseFrom(job, phaseIndex, outcome)

(***************************************************************************)
(* skipPhase                                                               *)
(***************************************************************************)
\* A skipPhase without the optional test; C6 tells the two apart.
CanSkipAny(phase) == TRUE

\* if (!phase.optional) throw
CanSkip(phase) == phase.optional

\* A skipPhase that leaves the phase pending; C20 tells the two apart.
SkippedLeftPending(ps, phaseIndex) == ps

\* phase.status = "skipped"
Skipped(ps, phaseIndex) == [ps EXCEPT ![phaseIndex + 1].status = "skipped"]

skipPhase(phaseIndex) ==
  IF ~InRange(phaseIndex)
    THEN Throws("skipPhase", "TypeError")
  ELSE IF ~CanSkip(phases[phaseIndex + 1])
    THEN Throws("skipPhase", "PhaseNotOptional")
  ELSE LET skipped == Skipped(phases, phaseIndex)
       IN /\ phases' = skipped
          /\ emitted' = <<Event("phase_skipped", phaseIndex, "skipped")>>
                        \o ProposeEvents(skipped, generatedFiles)
          /\ status' = ProposeStatus(skipped)
          /\ lastProposed' = ProposedAfter(skipped, lastProposed)
          /\ lastCall' = Call("skipPhase", phaseIndex, "ok", "")
          /\ job' = Relay(job, emitted')
          /\ UNCHANGED <<hostVars, snapshot, requestVars, archetype,
                         currentPhaseIndex, generatedFiles, errors, executing,
                         dispatched>>

(***************************************************************************)
(* Specification                                                           *)
(***************************************************************************)
SelectArchetype ==
  \E r \in Requests : selectArchetype(r.archetype, r.prompt, r.attachment)
ProposeNextPhase == proposeNextPhase
ConfirmPhase == \E k \in PhaseArgs : confirmPhase(k)
ConfirmPhaseResolve ==
  \E k \in executing :
    \E f \in GatewayReturns(phases[k + 1]) : confirmPhaseResolve(k, f)
ConfirmPhaseReject ==
  \E k \in executing, m \in Messages : confirmPhaseReject(k, m)
\* The host calls completeDeploymentPhase from the handler of a *_ready event,
\* with that event's phaseIndex.
CompleteDeploymentPhase ==
  \E k \in dispatched, o \in Outcomes : completeDeploymentPhase(k, o)
SkipPhase == \E k \in PhaseArgs : skipPhase(k)

Next ==
  \/ SelectArchetype
  \/ ProposeNextPhase
  \/ ConfirmPhase
  \/ ConfirmPhaseResolve
  \/ ConfirmPhaseReject
  \/ CompleteDeploymentPhase
  \/ SkipPhase

Spec == Init /\ [][Next]_vars

(***************************************************************************)
(* Vocabulary of the properties                                            *)
(***************************************************************************)
PhaseIndices == 0..(Len(phases) - 1)

Terminal(phaseStatus) == phaseStatus \in {"completed", "skipped", "error"}

InProgress == {k \in PhaseIndices : phases[k + 1].status = "in_progress"}

\* the phase is a plain generation phase: executePhase takes none of its
\* three special branches
PlainGeneration(phase) ==
  ~phase.isDeployment /\ ~phase.isAzureDeployment /\ ~phase.isValidation

EmittedTypes == {emitted[i].type : i \in 1..Len(emitted)}

\* the last step was a confirmPhase call that passed the mismatch check
ConfirmStarted ==
  /\ lastCall.op = "confirmPhase"
  /\ emitted /= <<>>
  /\ emitted[1].type = "phase_start"

\* the last step was the continuation of confirmPhase(k) after its gateway call
ResolvedStep(k) ==
  /\ k \in executing
  /\ k \notin executing'
  /\ lastCall' = Call("confirmPhase", k, "resolved", "")

RejectedStep(k) ==
  /\ k \in executing
  /\ k \notin executing'
  /\ lastCall'.op = "confirmPhase"
  /\ lastCall'.arg = k
  /\ lastCall'.result = "rejected"

(***************************************************************************)
(* C1.  In every reachable state at most one Phase Record has status      *)
(* in_progress, under any interleaving of the control calls, including    *)
(* calls that arrive while an earlier confirmPhase awaits the gateway.    *)
(***************************************************************************)
C1_AtMostOneInProgress == Cardinality(InProgress) <= 1

(***************************************************************************)
(* C2.  confirmPhase(k) is accepted only if k is the index named by the   *)
(* most recent phase_proposal; with no proposal yet, or with another      *)
(* index proposed, it fails with the phase-mismatch error.                *)
(***************************************************************************)
C2_ConfirmOnlyProposed == ConfirmStarted => lastCall.arg = lastProposed

(***************************************************************************)
(* C3.  Phases become terminal in index order: whenever phase j is        *)
(* in_progress or terminal, every phase i < j is terminal.                *)
(***************************************************************************)
C3_TerminalInIndexOrder ==
  \A j \in PhaseIndices :
    (phases[j + 1].status = "in_progress" \/ Terminal(phases[j + 1].status))
      => \A i \in 0..(j - 1) : Terminal(phases[i + 1].status)

(***************************************************************************)
(* C4.  While an effect phase (validation, docker-deployment,             *)
(* cloud-deployment) has been confirmed and completeDeploymentPhase has   *)
(* not been called for it, no confirmPhase call is accepted, no other     *)
(* phase becomes in_progress and no phase_proposal is emitted.  Stated    *)
(* for the steps taken while no gateway call is in flight, an explicit    *)
(* proposeNextPhase call by the caller left aside.                        *)
(***************************************************************************)
C4_DeploymentSuspends ==
  [][ (dispatched \cap dispatched' /= {} /\ executing = {}
         /\ lastCall'.op /= "proposeNextPhase")
        => /\ ~ConfirmStarted'
           /\ InProgress' \subseteq InProgress
           /\ "phase_proposal" \notin EmittedTypes' ]_vars

(***************************************************************************)
(* C5.  Confirming a validation phase emits validation_ready and no       *)
(* phase_complete, a docker-deployment phase docker_deploy_ready, and the *)
(* orchestrator status then stays generating until                        *)
(* completeDeploymentPhase is called for that phase.  The second part is  *)
(* stated for the steps taken while no gateway call is in flight, an      *)
(* explicit proposeNextPhase call by the caller left aside.               *)
(***************************************************************************)
SuspendedOn(k) ==
  /\ k \in dispatched
  /\ phases[k + 1].isValidation \/ phases[k + 1].isDeployment

ReadyEventOf(phase) ==
  IF phase.isDeployment THEN "docker_deploy_ready" ELSE "validation_ready"

C5_AtConfirmTime ==
  \A k \in PhaseIndices :
    (ConfirmStarted /\ lastCall.arg = k /\ SuspendedOn(k))
      => /\ ReadyEventOf(phases[k + 1]) \in EmittedTypes
         /\ "phase_complete" \notin EmittedTypes
         /\ status = "generating"

C5_StaysGeneratingUntilCompleted ==
  [][ /\ C5_AtConfirmTime'
      /\ \A k \in PhaseIndices :
           (SuspendedOn(k) /\ SuspendedOn(k)' /\ status = "generating"
              /\ executing = {} /\ lastCall'.op /= "proposeNextPhase")
             => status' = "generating" ]_vars

(***************************************************************************)
(* C6.  skipPhase on a phase whose optional flag is false fails with the  *)
(* not-optional error and changes nothing: no phase status, not the       *)
(* orchestrator status, generatedFiles or errors.  skipPhase succeeds     *)
(* only on optional phases, and no non-optional phase is ever skipped.    *)
(***************************************************************************)
C6_SkipRequiresOptional ==
  [][ /\ (lastCall'.op = "skipPhase" /\ lastCall'.result = "PhaseNotOptional")
           => (UNCHANGED stateVars /\ emitted' = <<>>)
      /\ (lastCall'.op = "skipPhase" /\ lastCall'.result = "ok")
           => phases[lastCall'.arg + 1].optional
      /\ \A j \in 1..Len(phases') :
           ~phases'[j].optional => phases'[j].status /= "skipped" ]_vars

C6_Witness ==
  /\ lastCall.op = "skipPhase"
  /\ lastCall.result = "PhaseNotOptional"
  /\ archetype = "fastapi-sqlite"
  /\ lastProposed = 4
  /\ phases[4].status = "skipped"

(***************************************************************************)
(* C7.  After a phase_proposal, only the proposed phase can be skipped:   *)
(* skipPhase(j) changes a phase status only if j is the index named by    *)
(* the latest phase_proposal and phase j is still pending.                *)
(***************************************************************************)
C7_OnlyProposedSkippable ==
  [][ (lastProposed /= -1 /\ lastCall'.op = "skipPhase")
        => \/ phases' = phases
           \/ /\ lastCall'.arg = lastProposed
              /\ phases[lastProposed + 1].status = "pending" ]_vars

(***************************************************************************)
(* C8.  When the gateway call of confirmPhase(k) on a plain generation    *)
(* phase returns the file list F, phase k becomes completed with          *)
(* files = F, phase_complete carrying F is emitted, and proposeNextPhase  *)
(* runs in the same step: phase_proposal for the first pending phase      *)
(* follows, or completed when no phase is pending.                        *)
(***************************************************************************)
C8_GenerationAutoAdvances ==
  [][ \A k \in PhaseIndices :
        (ResolvedStep(k) /\ PlainGeneration(phases[k + 1]))
          => /\ phases'[k + 1].status = "completed"
             /\ phases'[k + 1].files \in GeneratedFileLists
             /\ Len(emitted') = 2
             /\ emitted'[1].type = "phase_complete"
             /\ emitted'[1].phaseIndex = k
             /\ emitted'[1].files = phases'[k + 1].files
             /\ IF getNextPhase(phases') = -1
                  THEN /\ emitted'[2].type = "completed"
                       /\ status' = "completed"
                  ELSE /\ emitted'[2].type = "phase_proposal"
                       /\ emitted'[2].phaseIndex = getNextPhase(phases')
                       /\ lastProposed' = getNextPhase(phases')
                       /\ status' = "awaiting_confirmation" ]_vars

C8_Witness ==
  /\ lastCall = Call("confirmPhase", 0, "resolved", "")
  /\ phases[1].id = "setup"
  /\ phases[1].status = "completed"
  /\ phases[1].files = <<"requirements.txt", "README.md">>
  /\ Len(emitted) = 2
  /\ emitted[1].type = "phase_complete"
  /\ emitted[2].type = "phase_proposal"
  /\ emitted[2].phaseIndex = 1

(***************************************************************************)
(* C9.  When the gateway call of confirmPhase(k) fails with message m,    *)
(* phase k becomes error, exactly one entry {phase: id of k, error: m} is *)
(* appended to errors, phase_error for k is emitted, generatedFiles is    *)
(* unchanged and confirmPhase rejects with m.                             *)
(***************************************************************************)
C9_GatewayFailureRecorded ==
  [][ \A k \in PhaseIndices :
        RejectedStep(k)
          => /\ lastCall'.error \in Messages
             /\ phases'[k + 1].status = "error"
             /\ phases'[k + 1].error = lastCall'.error
             /\ errors' = Append(errors, [phase |-> phases[k + 1].id,
                                          error |-> lastCall'.error])
             /\ Len(emitted') = 1
             /\ emitted'[1].type = "phase_error"
             /\ emitted'[1].phaseIndex = k
             /\ emitted'[1].error = lastCall'.error
             /\ generatedFiles' = generatedFiles
             /\ status' = status ]_vars

C9_Witness ==
  /\ lastCall = Call("confirmPhase", 2, "rejected", "syntax error")
  /\ phases[3].status = "error"
  /\ errors = <<[phase |-> "schemas", error |-> "syntax error"]>>
  /\ generatedFiles /= <<>>
  /\ emitted[1].type = "phase_error"

(***************************************************************************)
(* C10.  The run does not advance past an error: after phase_error the    *)
(* continuations of the orchestrator emit no phase_proposal, phase_start  *)
(* or completed event, and confirmPhase(k + 1) is accepted after phase k  *)
(* ended in error only if a proposal naming k + 1 has been issued.        *)
(***************************************************************************)
C10_NoAdvancePastError ==
  [][ /\ (lastCall.result = "rejected" /\ \E k \in executing : ResolvedStep(k))
           => EmittedTypes'
                \cap {"phase_proposal", "phase_start", "completed"} = {}
      /\ (ConfirmStarted' /\ lastCall'.arg > 0
            /\ phases[lastCall'.arg].status = "error")
           => lastProposed = lastCall'.arg ]_vars

(***************************************************************************)
(* C11.  generatedFiles is append-only: across every step the previous     *)
(* value of generatedFiles is a prefix of the new one; it never shrinks    *)
(* and existing entries are never reordered.                               *)
(***************************************************************************)
IsPrefix(s, t) == Len(s) <= Len(t) /\ SubSeq(t, 1, Len(s)) = s

C11_GeneratedFilesAppendOnly ==
  [][IsPrefix(generatedFiles, generatedFiles')]_vars

\* a second phase has appended its files behind those of the first
C11_Witness ==
  /\ lastCall = Call("confirmPhase", 1, "resolved", "")
  /\ Len(generatedFiles) = 4
  /\ phases[1].status = "completed"
  /\ phases[2].status = "completed"

(***************************************************************************)
(* C12.  Every path in a Phase Record's files list also occurs in          *)
(* generatedFiles, and generatedFiles lists the phases' files in the order *)
(* the phases completed: the step that completes a phase appends exactly   *)
(* that phase's files, and no other step changes generatedFiles.           *)
(***************************************************************************)
Range(s) == {s[i] : i \in 1..Len(s)}

TurnsCompleted(k) ==
  phases[k + 1].status /= "completed" /\ phases'[k + 1].status = "completed"

C12_PhaseFilesInGeneratedFiles ==
  [][ /\ \A j \in 1..Len(phases') :
           Range(phases'[j].files) \subseteq Range(generatedFiles')
      /\ \A k \in PhaseIndices :
           TurnsCompleted(k)
             => generatedFiles' = generatedFiles \o phases'[k + 1].files
      /\ (\A k \in PhaseIndices : ~TurnsCompleted(k))
           => generatedFiles' = generatedFiles ]_vars

\* the cloud-deployment phase completed after generation phases did
C12_Witness ==
  /\ archetype = "fastapi-sqlite"
  /\ phases[10].status = "completed"
  /\ phases[10].files = <<"infra/main.bicep", "infra/main.bicepparam">>
  /\ phases[1].files = <<"requirements.txt", "README.md">>
  /\ Len(generatedFiles) >= 4
  /\ SubSeq(generatedFiles, Len(generatedFiles) - 1, Len(generatedFiles))
       = phases[10].files

(***************************************************************************)
(* A run as the host and a cooperating client drive it                    *)
(***************************************************************************)
\* "todo api", "DB login", "build a blog", "login", "JWT ui": with and
\* without the attachment they give every combination of the three keyword
\* matches
RunPrompts ==
  Prompts \cup { <<"l","o","g","i","n">>, <<"J","W","T"," ","u","i">> }

\* every archetype of the catalog
RunRequests ==
  { r \in [archetype : ArchetypeIds, prompt : RunPrompts,
           attachment : Attachments] :
      r.archetype /= "custom"
        => (r.prompt = <<"t","o","d","o"," ","a","p","i">>
              /\ r.attachment = NoAttachment) }

\* startOrchestration: selectArchetype, then the first proposeNextPhase
RunSelect ==
  \E r \in RunRequests : selectArchetype(r.archetype, r.prompt, r.attachment)
RunPropose ==
  /\ lastCall = Call("selectArchetype", -1, "ok", "")
  /\ proposeNextPhase
\* the client answers the open proposal: it confirms it, or skips it when
\* the proposed phase is optional
RunConfirm ==
  /\ status = "awaiting_confirmation"
  /\ confirmPhase(lastProposed)
RunSkip ==
  /\ status = "awaiting_confirmation"
  /\ phases[lastProposed + 1].optional
  /\ skipPhase(lastProposed)

\* No gateway call fails; the gateway returns, and the host completes every
\* effect phase it was handed.
RunNext ==
  \/ RunSelect
  \/ RunPropose
  \/ RunConfirm
  \/ RunSkip
  \/ ConfirmPhaseResolve
  \/ CompleteDeploymentPhase

\* Every proposal is answered, every gateway call returns and every effect
\* phase is completed: the run keeps taking steps while one is possible.
SpecRun == Init /\ [][RunNext]_vars /\ WF_vars(RunNext)

(***************************************************************************)
(* C13.  In a run with n phases where no gateway call fails, every         *)
(* proposal is answered and every confirmed effect phase is completed, the *)
(* orchestrator status eventually becomes completed; by then each of the n *)
(* phases is completed or skipped, and each received its terminal status   *)
(* in one assignment: a step that assigns a terminal status assigns it to  *)
(* a phase that had none, and none is assigned once status is completed.   *)
(***************************************************************************)
\* the step ran one of the terminal assignments phase.status = "completed",
\* "error" or "skipped", on phase lastCall'.arg
AssignsTerminal ==
  \/ lastCall'.op = "skipPhase" /\ lastCall'.result = "ok"
  \/ lastCall'.op = "confirmPhase"
       /\ lastCall'.result \in {"resolved", "rejected"}

C13_RunTerminates ==
  /\ <>(status = "completed")
  /\ [](status = "completed"
         => /\ Len(phases) > 0
            /\ \A j \in 1..Len(phases) :
                 phases[j].status \in {"completed", "skipped"})
  /\ [][ /\ AssignsTerminal
             => /\ ~Terminal(phases[lastCall'.arg + 1].status)
                /\ status /= "completed"
         /\ \A k \in PhaseIndices :
              (~Terminal(phases[k + 1].status)
                 /\ Terminal(phases'[k + 1].status))
                => (AssignsTerminal /\ k = lastCall'.arg) ]_vars

C13_Witness ==
  /\ status = "completed"
  /\ archetype = "fastapi-sqlite"
  /\ phases[4].status = "skipped"
  /\ phases[8].status = "completed"
  /\ phases[10].status = "completed"
  /\ dispatched = {}

(***************************************************************************)
(* C14.  completeDeploymentPhase(k, outcome) emits phase_complete for      *)
(* phase k carrying outcome and then runs proposeNextPhase, whether the    *)
(* outcome reports success or failure: no phase status changes (phase k    *)
(* is not set to error), errors is not appended to, and phase_proposal for *)
(* the first pending phase follows, or completed when none is pending.     *)
(***************************************************************************)
C14_CompletionAlwaysAdvances ==
  [][ lastCall'.op = "completeDeploymentPhase"
        => /\ Len(emitted') = 2
           /\ emitted'[1].type = "phase_complete"
           /\ emitted'[1].phaseIndex = lastCall'.arg
           /\ emitted'[1].outcome \in Outcomes
           /\ phases' = phases
           /\ errors' = errors
           /\ IF getNextPhase(phases) = -1
                THEN /\ emitted'[2].type = "completed"
                     /\ status' = "completed"
                ELSE /\ emitted'[2].type = "phase_proposal"
                     /\ emitted'[2].phaseIndex = getNextPhase(phases)
                     /\ lastProposed' = getNextPhase(phases)
                     /\ status' = "awaiting_confirmation" ]_vars

\* a failed validation was completed and the docker phase proposed
C14_Witness ==
  /\ lastCall = Call("completeDeploymentPhase", 7, "ok", "")
  /\ phases[8].isValidation
  /\ phases[8].status = "completed"
  /\ emitted[1].type = "phase_complete"
  /\ emitted[1].outcome = "failure"
  /\ emitted[2].type = "phase_proposal"
  /\ emitted[2].phaseIndex = 8
  /\ errors = <<>>

(***************************************************************************)
(* The host's handlers of the *_ready events (server index.js)            *)
(***************************************************************************)
\* How the external effect of a handler ends: the container starts / the
\* tests pass / the deployment goes through; it reports a failure; a step
\* of the handler raises; the tool it needs is not usable (Azure CLI missing
\* or not logged in).
Effects == {"succeeds", "fails", "raises", "unavailable"}

\* The handler ends in its failure branch or its catch block: it broadcasts
\* phase_error itself and returns.  The orchestrator is not called.
HandlerGivesUp(op, phaseIndex) ==
  /\ dispatched' = dispatched \ {phaseIndex}
  /\ lastCall' = Call(op, phaseIndex, "phase_error", "")
  /\ emitted' = <<>>
  /\ job' = IF job.hosted
              THEN broadcastAll(job, <<HostEvent("log", phaseIndex),
                                       HostEvent("phase_error", phaseIndex)>>)
              ELSE job
  /\ UNCHANGED <<hostVars, snapshot, requestVars, stateVars, executing,
                 lastProposed>>

\* the job after the handler broadcast entries of these types about its phase
HandlerReports(types, phaseIndex) ==
  IF job.hosted
    THEN broadcastAll(job, [i \in 1..Len(types) |->
                              HostEvent(types[i], phaseIndex)])
    ELSE job

\* docker_deploy_ready: completeDeploymentPhase only if deployResult.success
handleDockerDeployment(phaseIndex, effect) ==
  /\ phases[phaseIndex + 1].isDeployment
  /\ effect /= "unavailable"
  /\ IF effect = "succeeds"
       THEN completeDeploymentPhaseFrom(
              HandlerReports(<<"log", "docker_deployed">>, phaseIndex),
              phaseIndex, "success")
       ELSE HandlerGivesUp("handleDockerDeployment", phaseIndex)

\* validation_ready: completeDeploymentPhase whatever the exit code of the
\* test run, none when running it raises
handleValidation(phaseIndex, effect) ==
  /\ ~phases[phaseIndex + 1].isDeployment
  /\ ~phases[phaseIndex + 1].isAzureDeployment
  /\ effect /= "unavailable"
  /\ IF effect = "raises"
       THEN HandlerGivesUp("handleValidation", phaseIndex)
       ELSE completeDeploymentPhaseFrom(
              HandlerReports(<<"log">>, phaseIndex),
              phaseIndex, IF effect = "succeeds" THEN "success" ELSE "failure")

\* azure_deploy_ready: completeDeploymentPhase when the CLI is missing or not
\* logged in (manual deployment) and when the deployment went through; a
\* failed resource group or deployment is thrown into the catch block.  (The
\* handler reaches the CLI through `require`, which an ES module does not
\* define: there the first check raises.)
handleAzureDeployment(phaseIndex, effect) ==
  /\ ~phases[phaseIndex + 1].isDeployment
  /\ phases[phaseIndex + 1].isAzureDeployment
  /\ IF effect \in {"fails", "raises"}
       THEN HandlerGivesUp("handleAzureDeployment", phaseIndex)
       ELSE completeDeploymentPhaseFrom(
              HandlerReports(IF effect = "succeeds"
                               THEN <<"log", "azure_deployed">>
                               ELSE <<"log">>, phaseIndex),
              phaseIndex, IF effect = "succeeds" THEN "success" ELSE "failure")

HandleDockerDeployment ==
  \E k \in dispatched, e \in Effects : handleDockerDeployment(k, e)
HandleValidation ==
  \E k \in dispatched, e \in Effects : handleValidation(k, e)
HandleAzureDeployment ==
  \E k \in dispatched, e \in Effects : handleAzureDeployment(k, e)

\* A run driven by the host and a cooperating client, the effect phases
\* resolved by the host's handlers.
HostNext ==
  \/ RunSelect
  \/ RunPropose
  \/ RunConfirm
  \/ RunSkip
  \/ ConfirmPhaseResolve
  \/ HandleDockerDeployment
  \/ HandleValidation
  \/ HandleAzureDeployment

\* Every external effect settles, so every handler runs to its end.
SpecHost == Init /\ [][HostNext]_vars /\ WF_vars(HostNext)

(***************************************************************************)
(* C15.  After every docker_deploy_ready, azure_deploy_ready or            *)
(* validation_ready event the host invokes completeDeploymentPhase for     *)
(* that phase index, whether the external effect succeeds, fails or        *)
(* raises: the handling of a *_ready event ends only with that call, so    *)
(* the run is not left suspended in status generating.                     *)
(***************************************************************************)
C15_ReadyIsAlwaysCompleted ==
  [][ \A k \in dispatched :
        k \notin dispatched'
          => /\ lastCall'.op = "completeDeploymentPhase"
             /\ lastCall'.arg = k
             /\ status' /= "generating" ]_vars

(***************************************************************************)
(* C16.  Structural errors are rejected without a run event and without    *)
(* a state change: when selectArchetype fails with unknown archetype,      *)
(* confirmPhase with phase mismatch or skipPhase with not-optional, the    *)
(* orchestrator emits nothing and archetype, phases, currentPhaseIndex,    *)
(* status, generatedFiles and errors are unchanged.                        *)
(***************************************************************************)
StructuralErrors == {"UnknownArchetype", "PhaseMismatch", "PhaseNotOptional"}

C16_StructuralErrorsChangeNothing ==
  [][ lastCall'.result \in StructuralErrors
        => /\ emitted' = <<>>
           /\ UNCHANGED <<archetype, phases, currentPhaseIndex, status,
                          generatedFiles, errors>> ]_vars

\* a confirmPhase was rejected while another phase was executing
C16_Witness ==
  /\ lastCall = Call("confirmPhase", -1, "PhaseMismatch", "")
  /\ status = "generating"
  /\ executing = {1}
  /\ phases[1].status = "completed"
  /\ generatedFiles /= <<>>
  /\ emitted = <<>>

(***************************************************************************)
(* C17.  For every archetype of the catalog (the three fixed ones, and     *)
(* custom for every combination of the keyword matches) selectArchetype    *)
(* yields a non-empty phase sequence whose index fields are 0..n-1 in      *)
(* order, every status pending; the orchestrator status becomes planning   *)
(* and a plan event carrying the full list is emitted.  Each phase's index *)
(* stays equal to its position for the rest of the run.                    *)
(***************************************************************************)
IndexedInOrder(ps) == \A i \in 1..Len(ps) : ps[i].index = i - 1

C17_SelectInstantiatesPlan ==
  [][ /\ (archetype = "null" /\ archetype' \in ArchetypeIds)
           => /\ Len(phases') > 0
              /\ \A i \in 1..Len(phases') : phases'[i].status = "pending"
              /\ status' = "planning"
              /\ emitted' /= <<>>
              /\ emitted'[Len(emitted')].type = "plan"
              /\ emitted'[Len(emitted')].plan = phases'
              /\ \A i \in 1..(Len(emitted') - 1) : emitted'[i].type = "status"
      /\ archetype' \in ArchetypeIds
           => (Len(phases') > 0 /\ IndexedInOrder(phases')) ]_vars

\* custom with the three keyword matches: nine phases, late in the run
C17_Witness ==
  /\ archetype = "custom"
  /\ Len(phases) = 9
  /\ phases[9].index = 8
  /\ phases[9].status = "completed"
  /\ status = "completed"

(***************************************************************************)
(* C18.  Selecting archetype fastapi-sqlite yields 9 phases: the plan      *)
(* event lists 9 phases in catalog order, and the first phase_proposal     *)
(* after it names phase index 0 with id setup.                             *)
(***************************************************************************)
Ids(ps) == [i \in 1..Len(ps) |-> ps[i].id]

SelectsFastapi == archetype = "null" /\ archetype' = "fastapi-sqlite"

\* the step emits the first phase_proposal of a fastapi-sqlite run
FirstFastapiProposal ==
  /\ archetype' = "fastapi-sqlite"
  /\ lastProposed = -1
  /\ "phase_proposal" \in EmittedTypes'

FirstProposalNamesSetup ==
  /\ emitted'[Len(emitted')].type = "phase_proposal"
  /\ emitted'[Len(emitted')].phaseIndex = 0
  /\ phases'[1].id = "setup"
  /\ lastProposed' = 0

C18_FastapiPlanHasNinePhases ==
  [][ /\ SelectsFastapi
           => /\ Len(emitted'[Len(emitted')].plan) = 9
              /\ Ids(emitted'[Len(emitted')].plan) = Ids(FastapiSqlitePhases)
      /\ FirstFastapiProposal => FirstProposalNamesSetup ]_vars

(***************************************************************************)
(* C18, amended.  Selecting archetype fastapi-sqlite yields 10 phases:     *)
(* the plan event lists setup, database, schemas, auth, crud, api, tests,  *)
(* validate, docker-run, azure-deploy in this order, and the first         *)
(* phase_proposal after it names phase index 0 with id setup.              *)
(***************************************************************************)
C18_FastapiPlanHasTenPhases ==
  [][ /\ SelectsFastapi
           => /\ emitted'[Len(emitted')].type = "plan"
              /\ Len(emitted'[Len(emitted')].plan) = 10
              /\ Ids(emitted'[Len(emitted')].plan)
                   = <<"setup", "database", "schemas", "auth", "crud", "api",
                       "tests", "validate", "docker-run", "azure-deploy">>
              /\ phases' = emitted'[Len(emitted')].plan
      /\ FirstFastapiProposal => FirstProposalNamesSetup ]_vars

\* the first proposal of a fastapi-sqlite run has been made
C18_Witness ==
  /\ archetype = "fastapi-sqlite"
  /\ Len(phases) = 10
  /\ lastCall = Call("proposeNextPhase", -1, "ok", "")
  /\ lastProposed = 0
  /\ emitted[1].type = "phase_proposal"
  /\ phases[1].id = "setup"
  /\ phases[1].status = "pending"

(***************************************************************************)
(* C19.  For the custom archetype the phase list is a function of three    *)
(* booleans, the presence of storage, auth and frontend vocabulary in the  *)
(* request text followed by the attachment content: setup, then database   *)
(* and schemas iff storage, then auth iff auth, then core, api, then       *)
(* frontend iff frontend, then tests, then validate, in this order.        *)
(* Presence is what the source tests: a case-insensitive occurrence of a   *)
(* keyword anywhere in the text.                                           *)
(***************************************************************************)
\* the request as the orchestrator stored it
RequestText ==
  IF attachment.present THEN userPrompt \o attachment.content ELSE userPrompt

CustomOrder ==
  <<"setup", "database", "schemas", "auth", "core", "api", "frontend",
    "tests", "validate">>

WantedInPlan(id) ==
  CASE id \in {"database", "schemas"} -> TestAny(DatabaseKeywords, RequestText)
    [] id = "auth" -> TestAny(AuthKeywords, RequestText)
    [] id = "frontend" -> TestAny(FrontendKeywords, RequestText)
    [] OTHER -> TRUE

C19_CustomPlanFromKeywords ==
  archetype = "custom" => Ids(phases) = SelectSeq(CustomOrder, WantedInPlan)

\* "build a blog" with an attachment "sql": storage from the attachment,
\* frontend from the "ui" in "build", no auth
C19_Witness ==
  /\ archetype = "custom"
  /\ userPrompt = <<"b","u","i","l","d"," ","a"," ","b","l","o","g">>
  /\ attachment.present
  /\ Ids(phases) = <<"setup", "database", "schemas", "core", "api",
                     "frontend", "tests", "validate">>

(***************************************************************************)
(* C20.  skipPhase(k) on the proposed phase k with optional = true sets    *)
(* its status to skipped and emits phase_skipped for k; the proposal that  *)
(* follows names the first pending phase with index greater than k, or     *)
(* completed is emitted if there is none.  Phase k is never proposed       *)
(* again: no phase returns to pending, and every phase_proposal names a    *)
(* phase that is pending.                                                  *)
(***************************************************************************)
SkipsProposed ==
  /\ lastCall'.op = "skipPhase"
  /\ lastCall'.result = "ok"
  /\ lastCall'.arg = lastProposed
  /\ phases[lastProposed + 1].status = "pending"

PendingAfter(ps, k) ==
  {j \in (k + 1)..(Len(ps) - 1) : ps[j + 1].status = "pending"}

C20_SkipAdvancesPastPhase ==
  [][ /\ SkipsProposed
           => /\ phases[lastProposed + 1].optional
              /\ phases'[lastProposed + 1].status = "skipped"
              /\ Len(emitted') = 2
              /\ emitted'[1].type = "phase_skipped"
              /\ emitted'[1].phaseIndex = lastProposed
              /\ IF PendingAfter(phases', lastProposed) = {}
                   THEN /\ emitted'[2].type = "completed"
                        /\ status' = "completed"
                   ELSE /\ emitted'[2].type = "phase_proposal"
                        /\ emitted'[2].phaseIndex
                             \in PendingAfter(phases', lastProposed)
                        /\ \A j \in PendingAfter(phases', lastProposed) :
                             emitted'[2].phaseIndex <= j
                        /\ lastProposed' = emitted'[2].phaseIndex
      /\ \A j \in 1..Len(phases) :
           phases[j].status /= "pending" => phases'[j].status /= "pending"
      /\ \A i \in 1..Len(emitted') :
           emitted'[i].type = "phase_proposal"
             => phases'[emitted'[i].phaseIndex + 1].status = "pending" ]_vars

\* the optional auth phase was proposed and skipped, crud is proposed
C20_Witness ==
  /\ lastCall = Call("skipPhase", 3, "ok", "")
  /\ executing = {}
  /\ \A j \in 1..3 : phases[j].status = "completed"
  /\ phases[4].status = "skipped"
  /\ emitted[1].type = "phase_skipped"
  /\ emitted[2].type = "phase_proposal"
  /\ emitted[2].phaseIndex = 4


(***************************************************************************)
(* getState and the host's status endpoint                                 *)
(***************************************************************************)
\* ARCHETYPES[this.state.archetype]: the catalog entry, undefined for the
\* null of a fresh orchestrator
LookupArchetype(id) ==
  [defined |-> id \in ArchetypeIds \cup InheritedKeys,
   phases |-> IF id \in ArchetypeIds THEN ARCHETYPES(id) ELSE <<>>]

\* { ...this.state, archetype: ARCHETYPES[this.state.archetype] }
StateSnapshot ==
  [archetype |-> LookupArchetype(archetype),
   userPrompt |-> userPrompt,
   attachment |-> attachment,
   phases |-> phases,
   currentPhaseIndex |-> currentPhaseIndex,
   status |-> status,
   generatedFiles |-> generatedFiles,
   errors |-> errors]

\* A getState that resolves the archetype in place, writing the looked-up
\* entry over state.archetype; C21 tells the two apart.
getStateInPlace ==
  /\ snapshot' = <<StateSnapshot>>
  /\ archetype' = "undefined"
  /\ lastCall' = Call("getState", -1, "ok", "")
  /\ emitted' = <<>>
  /\ UNCHANGED <<requestVars, phases, currentPhaseIndex, status,
                 generatedFiles, errors, executing, dispatched,
                 lastProposed, job, hostVars>>

getState ==
  /\ snapshot' = <<StateSnapshot>>
  /\ lastCall' = Call("getState", -1, "ok", "")
  /\ emitted' = <<>>
  /\ UNCHANGED <<requestVars, stateVars, executing, dispatched,
                 lastProposed, job, hostVars>>

\* GET /api/generate/:jobId/status.  startOrchestration runs from
\* selectArchetype to the first proposeNextPhase without waiting on I/O, so
\* no request is served between the two.
GetStatus ==
  /\ lastCall /= Call("selectArchetype", -1, "ok", "")
  /\ getState

\* A run of host and client, some gateway calls failing, with status requests
\* at any moment
ReadNext ==
  \/ RunSelect
  \/ RunPropose
  \/ RunConfirm
  \/ RunSkip
  \/ ConfirmPhaseResolve
  \/ ConfirmPhaseReject
  \/ CompleteDeploymentPhase
  \/ GetStatus

SpecRead == Init /\ [][ReadNext]_vars

(***************************************************************************)
(* C21.  getState is idempotent and read-only: a getState call changes no  *)
(* field of the orchestrator state and emits no event, it returns the      *)
(* state as it is, and a getState call that directly follows another       *)
(* returns an equal snapshot.                                              *)
(***************************************************************************)
C21_GetStateReadOnly ==
  [][ lastCall'.op = "getState"
        => /\ UNCHANGED <<requestVars, stateVars>>
           /\ emitted' = <<>>
           /\ snapshot' = <<StateSnapshot>>
           /\ lastCall.op = "getState" => snapshot' = snapshot ]_vars

\* the state was read while a phase was generating, after one had failed
C21_Witness ==
  /\ lastCall.op = "getState"
  /\ snapshot = <<StateSnapshot>>
  /\ snapshot[1].archetype.defined
  /\ snapshot[1].status = "generating"
  /\ snapshot[1].phases[1].status = "completed"
  /\ snapshot[1].currentPhaseIndex = 2
  /\ snapshot[1].phases[3].status = "error"
  /\ snapshot[1].errors /= <<>>


(***************************************************************************)
(* C22.  Every state transition is applied before its event is emitted,    *)
(* and the event is emitted before the operation returns: when the sink    *)
(* receives phase_proposal(k) the status is awaiting_confirmation and      *)
(* phase k is pending; on phase_start(k) phase k is in_progress and the    *)
(* status is generating; on phase_complete, validation_ready,              *)
(* docker_deploy_ready and azure_deploy_ready(k) phase k is completed; on  *)
(* phase_skipped(k) phase k is skipped; on phase_error(k) phase k is error *)
(* and errors holds its entry; on completed the status is completed.       *)
(* Each event records the status of its phase as read at emission; the     *)
(* orchestrator status is not assigned again between the emission of a     *)
(* phase_proposal, phase_start or completed event and the end of the       *)
(* segment that emitted it.                                                *)
(***************************************************************************)
CompletionEvents ==
  {"phase_complete", "validation_ready", "docker_deploy_ready",
   "azure_deploy_ready"}

EventMatchesState(e) ==
  /\ e.type = "phase_proposal"
       => (status = "awaiting_confirmation" /\ e.phaseStatus = "pending")
  /\ e.type = "phase_start"
       => (status = "generating" /\ e.phaseStatus = "in_progress")
  /\ e.type \in CompletionEvents => e.phaseStatus = "completed"
  /\ e.type = "phase_skipped" => e.phaseStatus = "skipped"
  /\ e.type = "phase_error"
       => /\ e.phaseStatus = "error"
          /\ \E j \in 1..Len(errors) :
               errors[j] = [phase |-> phases[e.phaseIndex + 1].id,
                            error |-> e.error]
  /\ e.type = "completed" => status = "completed"

C22_EventsMatchState ==
  \A i \in 1..Len(emitted) : EventMatchesState(emitted[i])


(***************************************************************************)
(* C23.  After the Generation Gateway returns for a generation phase of a  *)
(* fixed archetype, for every expected file pattern of that phase's        *)
(* template that contains no wildcard and does not exist in the workspace, *)
(* a warning naming that file is attached to the result; the mismatches    *)
(* are non-fatal and the phase still ends completed.                       *)
(***************************************************************************)
FixedArchetypes == ArchetypeIds \ {"custom"}

\* the expected files of phase k's template that the post-check must report
\* when the workspace holds the files in written
ExpectedButMissing(k, written) ==
  {f \in Range(ARCHETYPES(archetype)[k + 1].files) :
     ~HasWildcard(f) /\ f \notin Range(written)}

C23_MissingFilesAreWarned ==
  [][ \A k \in PhaseIndices :
        (ResolvedStep(k) /\ PlainGeneration(phases[k + 1])
           /\ archetype \in FixedArchetypes)
          => /\ phases'[k + 1].status = "completed"
             /\ emitted'[1].type = "phase_complete"
             /\ \A f \in ExpectedButMissing(k, generatedFiles') :
                  \E w \in 1..Len(emitted'[1].warnings) :
                    emitted'[1].warnings[w].file = f ]_vars


(***************************************************************************)
(* C24.  The orchestrator status only ever changes along the edges         *)
(* initializing -> planning, planning -> awaiting_confirmation,            *)
(* awaiting_confirmation -> generating, generating ->                      *)
(* awaiting_confirmation, generating -> completed and generating -> error, *)
(* for every sequence of control-surface calls; a failed phase execution   *)
(* moves the status out of generating, and completed is never left.        *)
(***************************************************************************)
StatusEdges ==
  { <<"initializing", "planning">>,
    <<"planning", "awaiting_confirmation">>,
    <<"awaiting_confirmation", "generating">>,
    <<"generating", "awaiting_confirmation">>,
    <<"generating", "completed">>,
    <<"generating", "error">> }

C24_StatusFollowsEdges ==
  [][ /\ status' /= status => <<status, status'>> \in StatusEdges
      /\ \A k \in PhaseIndices :
           (RejectedStep(k) /\ status = "generating")
             => status' /= "generating" ]_vars


(***************************************************************************)
(* C25.  currentPhaseIndex is the index of the phase presently in          *)
(* progress, or none: in every reachable state, if currentPhaseIndex is a  *)
(* valid index then that phase has status in_progress, and if no phase is  *)
(* in_progress then currentPhaseIndex is -1.                               *)
(***************************************************************************)
C25_CurrentPhaseIsInProgress ==
  /\ InRange(currentPhaseIndex)
       => phases[currentPhaseIndex + 1].status = "in_progress"
  /\ InProgress = {} => currentPhaseIndex = -1


(***************************************************************************)
(* A job of the host: its event stream (server index.js)                   *)
(***************************************************************************)
\* SSE connections that may be open at the same time
MaxListeners == 2
Listeners == 1..MaxListeners

\* startOrchestration up to its first await: job.status = "running", the
\* orchestrator is created, "Checking Docker..." is broadcast
startOrchestration(j) ==
  broadcastEvent([j EXCEPT !.pc = "checking_docker",
                           !.orchestrators = @ + 1],
                 HostEvent("status", -1))

\* A stream endpoint that starts the orchestration for every connection,
\* whatever job.status is; C34 tells the two apart.
ConnectStreamAlwaysStarts(l) ==
  /\ job.hosted
  /\ l \notin DOMAIN job.listeners
  /\ ~(job.pc = "orchestrating" /\ lastProposed = -1)
  /\ LET joined ==
           [job EXCEPT !.listeners =
              [m \in DOMAIN @ \cup {l} |->
                 IF m = l THEN job.events ELSE @[m]]]
     IN job' = startOrchestration(joined)
  /\ emitted' = <<>>
  /\ lastCall' = Call("stream", l, "ok", "")
  /\ UNCHANGED <<hostVars, snapshot, requestVars, stateVars, executing,
                 dispatched, lastProposed>>

\* GET /api/generate/stream: replay job.events to the new connection, add it
\* to job.listeners, and start the orchestration if the job has not started.
\* startOrchestration runs from the end of ensureRunnerImage to the first
\* proposeNextPhase without waiting on I/O, so no request is served there.
ConnectStream(l) ==
  /\ job.hosted
  /\ l \notin DOMAIN job.listeners
  /\ ~(job.pc = "orchestrating" /\ lastProposed = -1)
  /\ LET joined ==
           [job EXCEPT !.listeners =
              [m \in DOMAIN @ \cup {l} |->
                 IF m = l THEN job.events ELSE @[m]]]
     IN job' = IF job.pc = "initializing"
                 THEN startOrchestration(joined) ELSE joined
  /\ emitted' = <<>>
  /\ lastCall' = Call("stream", l, "ok", "")
  /\ UNCHANGED <<hostVars, snapshot, requestVars, stateVars, executing,
                 dispatched, lastProposed>>

\* req.on("close"): job.listeners.delete(res)
DisconnectStream(l) ==
  /\ l \in DOMAIN job.listeners
  /\ ~(job.pc = "orchestrating" /\ lastProposed = -1)
  /\ job' = [job EXCEPT !.listeners =
               [m \in DOMAIN @ \ {l} |-> @[m]]]
  /\ emitted' = <<>>
  /\ lastCall' = Call("close", l, "ok", "")
  /\ UNCHANGED <<hostVars, snapshot, requestVars, stateVars, executing,
                 dispatched, lastProposed>>

\* startOrchestration after checkDocker, then after ensureRunnerImage: on a
\* failure an error entry is broadcast and the function returns
StartupStep(ok) ==
  /\ job.pc \in {"checking_docker", "ensuring_image"}
  /\ job' =
       IF ~ok
         THEN broadcastEvent([job EXCEPT !.pc = "stopped"],
                             HostEvent("error", -1))
       ELSE IF job.pc = "checking_docker"
         THEN broadcastEvent([job EXCEPT !.pc = "ensuring_image"],
                             HostEvent("status", -1))
       ELSE [job EXCEPT !.pc = "orchestrating"]
  /\ emitted' = <<>>
  /\ lastCall' = Call("startOrchestration", -1, job'.pc, "")
  /\ UNCHANGED <<hostVars, snapshot, requestVars, stateVars, executing,
                 dispatched, lastProposed>>

\* ... then selectArchetype and the first proposeNextPhase
StreamSelect ==
  /\ job.pc = "orchestrating"
  /\ RunSelect

InitStream ==
  /\ job = NewJob
  /\ InitOrchestrator
  /\ InitJobs
  /\ InitClient
  /\ InitLegacy

StreamNext ==
  \/ \E l \in Listeners : ConnectStream(l)
  \/ \E l \in Listeners : DisconnectStream(l)
  \/ \E ok \in BOOLEAN : StartupStep(ok)
  \/ StreamSelect
  \/ RunPropose
  \/ RunConfirm
  \/ RunSkip
  \/ ConfirmPhaseResolve
  \/ ConfirmPhaseReject
  \/ HandleDockerDeployment
  \/ HandleValidation
  \/ HandleAzureDeployment

SpecStream == InitStream /\ [][StreamNext]_vars

(***************************************************************************)
(* C26.  The host relays an ordered, replayable stream: every event the    *)
(* orchestrator emits, of every type, docker_deploy_ready,                 *)
(* azure_deploy_ready and validation_ready included, is appended to the    *)
(* job's event log in emission order and written to every connected        *)
(* listener; a listener that connects later first receives the whole prior *)
(* log in order and then every subsequent event, with no gap and no        *)
(* duplicate: what a connected listener has received is the log.           *)
(***************************************************************************)
RECURSIVE IsSubsequence(_, _)
IsSubsequence(s, t) ==
  IF s = <<>> THEN TRUE
  ELSE IF t = <<>> THEN FALSE
  ELSE IF Head(s) = Head(t) THEN IsSubsequence(Tail(s), Tail(t))
  ELSE IsSubsequence(s, Tail(t))

\* the entries the step appended to job.events
NewEntries == SubSeq(job'.events, Len(job.events) + 1, Len(job'.events))

C26_EveryEventRelayed ==
  [][ job.hosted
        => /\ IsPrefix(job.events, job'.events)
           /\ IsSubsequence(emitted', NewEntries)
           /\ \A l \in DOMAIN job'.listeners :
                job'.listeners[l] = job'.events ]_vars


(***************************************************************************)
(* Jobs and their workspace directories (server index.js)                  *)
(***************************************************************************)
\* jobs the host may hold at the same time
MaxJobs == 3
JobIds == 1..MaxJobs

Digits == {"0", "1", "2", "3", "4", "5", "6", "7", "8", "9"}

\* .toLowerCase().replace(/[^a-z0-9\s]/g, "")
KeptInName(c) ==
  \/ c = " "
  \/ c \in Digits
  \/ \E i \in 1..Len(LowerLetters) : LowerLetters[i] = c

Cleaned(text) == SelectSeq([i \in 1..Len(text) |-> ToLower(text[i])], KeptInName)

\* length of the run of non-blank characters the text starts with
RECURSIVE RunLength(_)
RunLength(text) ==
  IF text = <<>> \/ Head(text) = " " THEN 0 ELSE 1 + RunLength(Tail(text))

\* .split(/\s+/): the runs of non-blank characters, in order (the empty
\* strings split yields at a blank end are dropped by the filter below)
RECURSIVE Words(_)
Words(text) ==
  IF text = <<>> THEN <<>>
  ELSE IF Head(text) = " " THEN Words(Tail(text))
  ELSE <<SubSeq(text, 1, RunLength(text))>>
         \o Words(SubSeq(text, RunLength(text) + 1, Len(text)))

LongWord(w) == Len(w) > 2

\* .join("_")
RECURSIVE Joined(_)
Joined(words) ==
  IF words = <<>> THEN <<>>
  ELSE IF Len(words) = 1 THEN words[1]
  ELSE words[1] \o <<"_">> \o Joined(Tail(words))

\* The name is made from the prompt alone: jobId is a parameter the body
\* never reads.
generateProjectName(prompt, jobId) ==
  LET long == SelectSeq(Words(Cleaned(prompt)), LongWord)
      words == SubSeq(long, 1, IF Len(long) < 3 THEN Len(long) ELSE 3)
      base == IF Len(words) > 0 THEN Joined(words)
              ELSE <<"p","r","o","j","e","c","t">>
  IN base \o <<"_","a","p","p">>

\* !prompt?.trim()
Blank(prompt) == \A i \in 1..Len(prompt) : prompt[i] = " "

\* "todo api", "Todo API!", "DB login", "login", "  "
JobPrompts ==
  { <<"t","o","d","o"," ","a","p","i">>,
    <<"T","o","d","o"," ","A","P","I","!">>,
    <<"D","B"," ","l","o","g","i","n">>,
    <<"l","o","g","i","n">>,
    <<" "," ">> }

\* files a job's Generation Gateway writes into the job's projectDir
JobFiles == {"README.md"}

\* POST /api/generate (an archetype is given).  jobId is a fresh random id.
PostGenerate(prompt, jobId) ==
  /\ jobId \notin DOMAIN activeJobs
  /\ IF Blank(prompt)
       THEN UNCHANGED jobsVars
       ELSE LET projectDir == generateProjectName(prompt, jobId)
            IN /\ workspaces' =
                    [d \in DOMAIN workspaces \cup {projectDir} |->
                       IF d = projectDir THEN {} ELSE workspaces[d]]
               /\ activeJobs' =
                    [j \in DOMAIN activeJobs \cup {jobId} |->
                       IF j = jobId
                         THEN [prompt |-> prompt, projectDir |-> projectDir]
                         ELSE activeJobs[j]]
  /\ lastCall' = Call("generate", jobId,
                      IF Blank(prompt) THEN "400" ELSE "ok", "")
  /\ emitted' = <<>>
  /\ UNCHANGED <<clientVars, legacy, snapshot, requestVars, stateVars,
                 executing, dispatched, lastProposed, job>>

\* write_file of the Generation Gateway working for job jobId: the file in
\* the job's projectDir now holds what this job wrote
WriteFile(jobId, file) ==
  /\ jobId \in DOMAIN activeJobs
  /\ workspaces' =
       [workspaces EXCEPT ![activeJobs[jobId].projectDir] =
          {w \in @ : w.file /= file} \cup {[file |-> file, by |-> jobId]}]
  /\ lastCall' = Call("write_file", jobId, "ok", "")
  /\ emitted' = <<>>
  /\ UNCHANGED <<activeJobs, clientVars, legacy, snapshot, requestVars,
                 stateVars, executing, dispatched, lastProposed, job>>

JobsNext ==
  \/ \E p \in JobPrompts, j \in JobIds : PostGenerate(p, j)
  \/ \E j \in JobIds, f \in JobFiles : WriteFile(j, f)

SpecJobs == Init /\ [][JobsNext]_vars

(***************************************************************************)
(* C27.  Independent runs share no mutable state: two jobs active at the   *)
(* same time never operate on the same workspace directory, and creating a *)
(* new job never deletes or modifies the workspace of another job that is  *)
(* still registered in activeJobs, also when both jobs were created from   *)
(* the same prompt.                                                        *)
(***************************************************************************)
C27_JobsShareNoWorkspace ==
  [][ /\ \A j1, j2 \in DOMAIN activeJobs' :
           j1 /= j2
             => activeJobs'[j1].projectDir /= activeJobs'[j2].projectDir
      /\ lastCall'.op = "generate"
           => \A j \in DOMAIN activeJobs :
                workspaces'[activeJobs[j].projectDir]
                  = workspaces[activeJobs[j].projectDir] ]_vars


(***************************************************************************)
(* C28.  Confirming a cloud-deployment phase first invokes the Generation  *)
(* Gateway: the confirmPhase call leaves the phase in_progress with the    *)
(* gateway call in flight.  When that call succeeds, its files are stored  *)
(* on the phase and appended to generatedFiles, azure_deploy_ready (not    *)
(* phase_complete) is emitted carrying those files, and no proposal        *)
(* follows before completeDeploymentPhase: the continuation proposes       *)
(* nothing, hands the phase to the host, and no phase_proposal is emitted  *)
(* while the phase is with the host.  When the call fails, the phase ends  *)
(* in error with phase_error and no azure_deploy_ready is emitted.         *)
(***************************************************************************)
C28_AzureConfirmGeneratesFirst ==
  [][ \A k \in PhaseIndices :
        phases[k + 1].isAzureDeployment
          => /\ (/\ lastCall'.op = "confirmPhase"
                 /\ lastCall'.arg = k
                 /\ phases[k + 1].status = "pending"
                 /\ phases'[k + 1].status /= "pending")
                  => /\ lastCall'.result = "awaiting"
                     /\ k \in executing'
                     /\ phases'[k + 1].status = "in_progress"
                     /\ EmittedTypes' \cap {"azure_deploy_ready",
                                           "phase_complete",
                                           "phase_proposal"} = {}
             /\ ResolvedStep(k)
                  => /\ Len(emitted') = 1
                     /\ emitted'[1].type = "azure_deploy_ready"
                     /\ emitted'[1].phaseIndex = k
                     /\ emitted'[1].files \in BicepFileLists
                     /\ phases'[k + 1].files = emitted'[1].files
                     /\ phases'[k + 1].status = "completed"
                     /\ generatedFiles' = generatedFiles \o emitted'[1].files
                     /\ status' = status
                     /\ lastProposed' = lastProposed
                     /\ k \in dispatched'
             /\ RejectedStep(k)
                  => /\ phases'[k + 1].status = "error"
                     /\ EmittedTypes' = {"phase_error"}
                     /\ emitted'[1].phaseIndex = k
                     /\ generatedFiles' = generatedFiles
                     /\ k \notin dispatched'
             /\ (k \in dispatched /\ k \in dispatched')
                  => "phase_proposal" \notin EmittedTypes' ]_vars

C28_Witness ==
  \E k \in PhaseIndices :
    /\ phases[k + 1].isAzureDeployment
    /\ lastCall = Call("confirmPhase", k, "resolved", "")
    /\ phases[k + 1].status = "completed"
    /\ phases[k + 1].files \in BicepFileLists
    /\ phases[k + 1].files /= <<>>
    /\ emitted = <<[Event("azure_deploy_ready", k, "completed")
                      EXCEPT !.files = phases[k + 1].files]>>
    /\ k \in dispatched
    /\ Len(generatedFiles) > Len(phases[k + 1].files)

\* the failing branch of C28 is reached as well
C28_WitnessFailure ==
  \E k \in PhaseIndices :
    /\ phases[k + 1].isAzureDeployment
    /\ lastCall.op = "confirmPhase"
    /\ lastCall.result = "rejected"
    /\ lastCall.arg = k
    /\ phases[k + 1].status = "error"


(***************************************************************************)
(* C29.  Confirming the final validation phase (id validate) of the custom *)
(* archetype is dispatched as a validation phase: the confirmPhase call    *)
(* invokes no Generation Gateway call, emits validation_ready and no       *)
(* phase_complete, and does not advance (the status stays generating and   *)
(* nothing is proposed) before completeDeploymentPhase, as for the         *)
(* validate phase of the fixed archetypes.                                 *)
(***************************************************************************)
ConfirmsValidateOf(archetypeIds, k) ==
  /\ archetype \in archetypeIds
  /\ phases[k + 1].id = "validate"
  /\ phases[k + 1].status = "pending"
  /\ phases'[k + 1].status /= "pending"
  /\ lastCall'.op = "confirmPhase"
  /\ lastCall'.arg = k

DispatchedAsValidation(k) ==
  /\ k \notin executing'
  /\ "validation_ready" \in EmittedTypes'
  /\ EmittedTypes' \cap {"phase_complete", "phase_proposal", "completed"} = {}
  /\ status' = "generating"
  /\ k \in dispatched'

C29_CustomValidateIsValidation ==
  [][ \A k \in PhaseIndices :
        ConfirmsValidateOf({"custom"}, k) => DispatchedAsValidation(k) ]_vars


(***************************************************************************)
(* C30.  A terminal phase status is permanent: once the status of a phase  *)
(* is completed, skipped or error, no later operation on the plan          *)
(* (skipPhase on it, a confirmPhase execution that resolves late,          *)
(* completeDeploymentPhase) changes it, under any interleaving of calls    *)
(* after selectArchetype.                                                  *)
(***************************************************************************)
C30_TerminalStatusPermanent ==
  [][ lastCall'.op /= "selectArchetype"
        => \A k \in PhaseIndices :
             Terminal(phases[k + 1].status)
               => phases'[k + 1].status = phases[k + 1].status ]_vars


(***************************************************************************)
(* C31.  Whenever the orchestrator status is completed, no phase is        *)
(* pending or in_progress and no effect phase is still waiting for its     *)
(* completeDeploymentPhase call, under every interleaving (skipPhase on    *)
(* the last optional phase while an earlier phase is still executing or    *)
(* deploying included).                                                    *)
(***************************************************************************)
C31_CompletedMeansAllSettled ==
  status = "completed"
    => /\ \A k \in PhaseIndices :
            phases[k + 1].status \notin {"pending", "in_progress"}
       /\ dispatched = {}


(***************************************************************************)
(* C32.  The completed event is emitted at most once per run, and after it *)
(* no further phase_proposal, phase_start or phase_complete event is       *)
(* emitted, completeDeploymentPhase being called at most once for each     *)
(* effect phase handed to the host.  The status is completed exactly from  *)
(* the emission of completed until the next selectArchetype, which starts  *)
(* a new run.  Stated for the steps other than an explicit                 *)
(* proposeNextPhase call by the caller (the host makes one, at the start   *)
(* of the run).                                                            *)
(***************************************************************************)
AfterCompleted == {"completed", "phase_proposal", "phase_start",
                   "phase_complete"}

C32_CompletedIsLast ==
  [][ (/\ status = "completed"
       /\ lastCall'.op \notin {"selectArchetype", "proposeNextPhase"})
        => EmittedTypes' \cap AfterCompleted = {} ]_vars


(***************************************************************************)
(* The object getState returned, in the hands of its caller                *)
(***************************************************************************)
\* The spread { ...this.state } copies the fields of this.state one by one:
\* status, currentPhaseIndex and the other scalars by value, while phases,
\* generatedFiles and errors are the arrays of the state themselves.  This is
\* what the object returned by the latest getState call reads now.
\* state.generatedFiles and state.errors are never reassigned; state.phases
\* is reassigned by selectArchetype only, which runs once, so an object whose
\* phases is the empty array of the constructor keeps reading it as empty.
RetainedSnapshot ==
  [snapshot[1] EXCEPT
     !.phases = IF snapshot[1].phases = <<>> THEN <<>> ELSE phases,
     !.generatedFiles = generatedFiles,
     !.errors = errors]

\* edits a caller makes to the object it was returned
MaxEdits == 1
EditedPath == "NOTES.md"
Edits(files) == Cardinality({i \in 1..Len(files) : files[i] = EditedPath})

\* The caller pushes a path onto the generatedFiles of the object it holds
\* (snapshot.generatedFiles.push(...)): that array is state.generatedFiles.
EditSnapshot ==
  /\ snapshot /= <<>>
  /\ Edits(generatedFiles) < MaxEdits
  /\ generatedFiles' = Append(generatedFiles, EditedPath)
  /\ lastCall' = Call("editSnapshot", -1, "ok", "")
  /\ emitted' = <<>>
  /\ UNCHANGED <<hostVars, snapshot, requestVars, archetype, phases,
                 currentPhaseIndex, status, errors, executing, dispatched,
                 lastProposed, job>>

SnapshotNext ==
  \/ ReadNext
  \/ EditSnapshot

SpecSnapshot == Init /\ [][SnapshotNext]_vars

(***************************************************************************)
(* C33.  A snapshot returned by getState is read-only with respect to the  *)
(* run: the phases, generatedFiles and errors it holds are not altered by  *)
(* the transitions the orchestrator performs after the call, and changing  *)
(* the returned value does not change the state of the orchestrator.       *)
(***************************************************************************)
C33_SnapshotDetached ==
  [][ /\ (snapshot /= <<>> /\ lastCall'.op \notin {"getState", "editSnapshot"})
           => RetainedSnapshot' = RetainedSnapshot
      /\ lastCall'.op = "editSnapshot" => UNCHANGED stateVars ]_vars


(***************************************************************************)
(* C34.  For each job, startOrchestration creates exactly one orchestrator *)
(* and calls selectArchetype at most once, however many stream connections *)
(* for the job arrive and however they interleave with the asynchronous    *)
(* Docker checks: no orchestrator exists while job.status is initializing, *)
(* exactly one from the first connection on, and selectArchetype is called *)
(* only by that one startOrchestration, on an orchestrator that has no     *)
(* archetype yet and has proposed nothing.                                 *)
(***************************************************************************)
C34_OneOrchestratorPerJob ==
  [][ /\ job'.hosted
           => job'.orchestrators = IF job'.pc = "initializing" THEN 0 ELSE 1
      /\ (job.hosted /\ lastCall'.op = "selectArchetype")
           => /\ job.pc = "orchestrating"
              /\ job.orchestrators = 1
              /\ archetype = "null"
              /\ lastProposed = -1 ]_vars

\* a second connection arrives while the Docker checks are still running
C34_Witness ==
  /\ lastCall = Call("stream", 2, "ok", "")
  /\ DOMAIN job.listeners = {1, 2}
  /\ job.pc = "ensuring_image"
  /\ job.orchestrators = 1


(***************************************************************************)
(* getClient (phase generator)                                             *)
(***************************************************************************)
\* what every step of a getClient call leaves alone
ClientFrame ==
  UNCHANGED <<jobsVars, legacy, snapshot, requestVars, stateVars,
              executing, dispatched, lastProposed, job>>

\* `const client = await getClient()` of generation c, up to the first wait on
\* I/O.  With no client, one is constructed and assigned to copilotClient, and
\* the call waits for start().  With copilotClient set, the call returns it at
\* once, in whatever state the client is.
GetClient(c) ==
  /\ clientCalls[c].pc = "idle"
  /\ IF copilotClient.state = "null"
       THEN /\ copilotClient' =
                 [state |-> "starting",
                  constructed |-> copilotClient.constructed + 1]
            /\ clientCalls' =
                 [clientCalls EXCEPT ![c] = [Idle EXCEPT !.pc = "starting"]]
       ELSE /\ clientCalls' =
                 [clientCalls EXCEPT ![c] =
                    [pc |-> "has_client",
                     started |-> copilotClient.state = "started"]]
            /\ UNCHANGED copilotClient
  /\ lastCall' = Call("getClient", c, clientCalls'[c].pc, "")
  /\ emitted' = <<>>
  /\ ClientFrame

\* start() settles: the call that waited for it returns the client, or
\* rejects when start() failed.  copilotClient keeps referring to the client.
StartSettles(ok) ==
  /\ copilotClient.state = "starting"
  /\ copilotClient' =
       [copilotClient EXCEPT !.state = IF ok THEN "started" ELSE "failed"]
  /\ clientCalls' =
       [c \in Callers |->
          IF clientCalls[c].pc = "starting"
            THEN [pc |-> IF ok THEN "has_client" ELSE "rejected",
                  started |-> ok]
            ELSE clientCalls[c]]
  /\ lastCall' = Call("start", -1, copilotClient'.state, "")
  /\ emitted' = <<>>
  /\ ClientFrame

\* the generation of caller c is over
GenerationEnds(c) ==
  /\ clientCalls[c].pc \in {"has_client", "rejected"}
  /\ clientCalls' = [clientCalls EXCEPT ![c] = Idle]
  /\ lastCall' = Call("generationEnds", c, "ok", "")
  /\ emitted' = <<>>
  /\ UNCHANGED copilotClient
  /\ ClientFrame

ClientNext ==
  \/ \E c \in Callers : GetClient(c)
  \/ \E ok \in BOOLEAN : StartSettles(ok)
  \/ \E c \in Callers : GenerationEnds(c)

SpecClient == Init /\ [][ClientNext]_vars

(***************************************************************************)
(* C35.  getClient never hands out a client whose start() has not          *)
(* completed: when generations call getClient concurrently while no client *)
(* exists, exactly one CopilotClient is constructed and every caller       *)
(* receives it only after it has finished starting.                        *)
(***************************************************************************)
C35_ClientHandedOutStarted ==
  /\ copilotClient.constructed <= 1
  /\ \A c \in Callers :
       clientCalls[c].pc = "has_client" => clientCalls[c].started


(***************************************************************************)
(* generatePhaseWithCopilot: how a gateway call settles                    *)
(***************************************************************************)
\* error.message of the failures explored for session.sendAndWait
GatewayErrors == {"Timeout after 300000ms", "syntax error"}

MessageText(message) ==
  IF message = "syntax error"
    THEN <<"s","y","n","t","a","x"," ","e","r","r","o","r">>
    ELSE <<"T","i","m","e","o","u","t"," ","a","f","t","e","r"," ",
           "3","0","0","0","0","0","m","s">>

\* String.prototype.includes
Includes(text, word) ==
  \E i \in 1..(Len(text) - Len(word) + 1) :
    \A j \in 1..Len(word) : text[i + j - 1] = word[j]

\* error.message?.includes('Timeout')
IsTimeout(message) ==
  Includes(MessageText(message), <<"T","i","m","e","o","u","t">>)

\* [...new Set(generatedFiles)]: the first occurrence of each path, in order
RECURSIVE Unique(_)
Unique(files) ==
  IF files = <<>> THEN <<>>
  ELSE LET front == Unique(SubSeq(files, 1, Len(files) - 1))
           last == files[Len(files)]
       IN IF \E i \in 1..Len(front) : front[i] = last
            THEN front ELSE Append(front, last)

\* A gateway that re-raises every timeout, files written or not; C36 tells
\* the two apart.
generatePhaseWithCopilotStrict(written, outcome) ==
  IF outcome = "ok"
    THEN [raised |-> FALSE, success |-> TRUE, partial |-> FALSE,
          files |-> Unique(written), message |-> ""]
  ELSE [raised |-> TRUE, success |-> FALSE, partial |-> FALSE,
        files |-> <<>>, message |-> outcome]

\* written: the paths write_file pushed onto generatedFiles, in order, by the
\* time sendAndWait settles; outcome: "ok" when it returns, else the message
\* of the error it throws.  raised: the function throws that error.
generatePhaseWithCopilot(written, outcome) ==
  IF outcome = "ok"
    THEN [raised |-> FALSE, success |-> TRUE, partial |-> FALSE,
          files |-> Unique(written), message |-> ""]
  ELSE IF IsTimeout(outcome) /\ Len(written) > 0
    THEN [raised |-> FALSE, success |-> TRUE, partial |-> TRUE,
          files |-> Unique(written), message |-> ""]
  ELSE [raised |-> TRUE, success |-> FALSE, partial |-> FALSE,
        files |-> <<>>, message |-> outcome]

\* What write_file may have recorded when the call settles: for the calls
\* explored failing, nothing, the usual paths, or a path written twice.
WrittenLists(phase) ==
  IF ~GatewayMayFail(phase) THEN GatewayReturns(phase)
  ELSE UNION { {<<>>, usual, <<usual[2]>> \o usual} :
               usual \in GatewayReturns(phase) }

SettleOutcomes(phase) ==
  IF GatewayMayFail(phase) THEN {"ok"} \cup GatewayErrors ELSE {"ok"}

\* The gateway call of confirmPhase(phaseIndex) settles.  executePhase adds
\* its fields to the object the gateway returned, so partial stays on it.
GatewaySettles(phaseIndex, written, outcome) ==
  LET g == generatePhaseWithCopilot(written, outcome)
      phase == phases[phaseIndex + 1]
  IN IF g.raised
       THEN confirmPhaseReject(phaseIndex, g.message)
       ELSE confirmPhaseResolveWith(
              phaseIndex,
              [executePhase(phase, g.files) EXCEPT !.partial = g.partial])

GatewaySettlesNext ==
  \E k \in executing :
    \E written \in WrittenLists(phases[k + 1]),
       outcome \in SettleOutcomes(phases[k + 1]) :
      GatewaySettles(k, written, outcome)

\* A run of host and client in which gateway calls settle in every way
GatewayNext ==
  \/ RunSelect
  \/ RunPropose
  \/ RunConfirm
  \/ RunSkip
  \/ GatewaySettlesNext
  \/ CompleteDeploymentPhase

SpecGateway == Init /\ [][GatewayNext]_vars

(***************************************************************************)
(* C36.  generatePhaseWithCopilot turns a gateway timeout into success     *)
(* exactly when at least one file was written before the timeout (success  *)
(* true, partial true, the de-duplicated files), and the orchestrator then *)
(* marks the phase completed and, for a generation phase, advances on its  *)
(* own; a timeout with no file written and every other failure is raised   *)
(* again and the phase ends in error.  The files returned never hold a     *)
(* path twice.                                                             *)
(***************************************************************************)
NoDuplicates(files) ==
  \A i, j \in 1..Len(files) : files[i] = files[j] => i = j

maxFixes == 3

\* what a test run may come back with: the exit code of the container and
\* the logs kept in lastLogs
TestResults ==
  { [code |-> 0, combined |-> "3 passed"],
    [code |-> 1, combined |-> "1 failed"],
    [code |-> 2, combined |-> "collection error"] }

LegacyFrame ==
  UNCHANGED <<jobsVars, clientVars, snapshot, requestVars, stateVars,
              executing, dispatched, lastProposed, job>>

\* sseSend(res, event, ...) for each event, in order
Sent(l, events) == [l EXCEPT !.sent = @ \o events]
\* return res.end()
Ended(l) == [l EXCEPT !.pc = "ended", !.ended = TRUE]

LegacyStep(next, op, result) ==
  /\ legacy' = next
  /\ lastCall' = Call(op, legacy.attempt, result, "")
  /\ emitted' = <<>>
  /\ LegacyFrame

\* sseSend(res, "error", ...); return res.end()
Refused(l) == Ended(Sent(l, <<"error">>))

\* GET /generate arrives: without a prompt the handler answers error and
\* ends; with one it announces the prerequisite check and awaits checkDocker.
LegacyRequest(hasPrompt) ==
  /\ legacy.pc = "idle"
  /\ IF hasPrompt
       THEN LegacyStep(Sent([legacy EXCEPT !.pc = "checking_docker"],
                            <<"status">>), "generate", "ok")
       ELSE LegacyStep(Refused(legacy), "generate", "missing_prompt")

\* checkDocker() settles
LegacyDockerChecked(dockerOk) ==
  /\ legacy.pc = "checking_docker"
  /\ IF dockerOk
       THEN LegacyStep(Sent([legacy EXCEPT !.pc = "ensuring_image"],
                            <<"status">>), "checkDocker", "ok")
       ELSE LegacyStep(Refused(legacy), "checkDocker", "failed")

\* ensureRunnerImage() settles; on success the workspace directory is made
\* and generateProjectWithCopilot is called
LegacyImageEnsured(imageOk) ==
  /\ legacy.pc = "ensuring_image"
  /\ IF imageOk
       THEN LegacyStep(Sent([legacy EXCEPT !.pc = "generating"],
                            <<"status">>), "ensureRunnerImage", "ok")
       ELSE LegacyStep(Refused(legacy), "ensureRunnerImage", "failed")

\* generateProjectWithCopilot returns the project and the loop is entered
\* with attempt = 0, or it throws and the handler sends error and ends.
LegacyGenerated(ok) ==
  /\ legacy.pc = "generating"
  /\ IF ok
       THEN LegacyStep(Sent([legacy EXCEPT !.pc = "testing"], <<"file">>),
                       "generateProjectWithCopilot", "ok")
       ELSE LegacyStep(Refused(legacy), "generateProjectWithCopilot",
                       "failed")

\* One pass of `while (attempt <= maxFixes)` from its head to the return of
\* dockerRunCommand and on to the next await: done and the end of the
\* response when the tests passed, error and the end when they failed on the
\* last attempt, else the call of fixCodeWithCopilot.
RunTests(testResult) ==
  /\ legacy.pc = "testing"
  /\ legacy.attempt <= maxFixes
  /\ LET ran == Sent([legacy EXCEPT !.tests = @ + 1,
                                   !.lastLogs = testResult.combined],
                     <<"status">>)
     IN IF testResult.code = 0
          THEN LegacyStep(
                 Ended(Sent([ran EXCEPT !.passed = TRUE],
                            <<"status">> \o [i \in 1..8 |-> "agent_log"]
                              \o <<"done">>)),
                 "dockerRunCommand", "passed")
        ELSE IF ran.attempt = maxFixes
          THEN LegacyStep(Refused(ran), "dockerRunCommand", "failed")
        ELSE LegacyStep(Sent([ran EXCEPT !.pc = "fixing"], <<"status">>),
                        "dockerRunCommand", "failed")

\* what the fix session sent before it settled: a patched file or nothing
Patched(l, wrote) == IF wrote THEN Sent(l, <<"file">>) ELSE l

\* A handler in which a failed fix ends the request with error; C37 tells
\* the two apart.
FixSettlesOrGivesUp(wrote, ok) ==
  /\ legacy.pc = "fixing"
  /\ LET fixed == [Patched(legacy, wrote) EXCEPT !.fixes = @ + 1]
     IN IF ok
          THEN LegacyStep([fixed EXCEPT !.pc = "testing", !.attempt = @ + 1],
                          "fixCodeWithCopilot", "ok")
          ELSE LegacyStep(Refused(fixed), "fixCodeWithCopilot", "failed")

\* fixCodeWithCopilot returns, or throws and the catch block sends an
\* agent_log line; either way attempt += 1 and the loop goes on.
FixSettles(wrote, ok) ==
  /\ legacy.pc = "fixing"
  /\ LET fixed == [Patched(legacy, wrote) EXCEPT !.pc = "testing",
                                                !.fixes = @ + 1,
                                                !.attempt = @ + 1]
     IN IF ok
          THEN LegacyStep(fixed, "fixCodeWithCopilot", "ok")
          ELSE LegacyStep(Sent(fixed, <<"agent_log">>),
                          "fixCodeWithCopilot", "failed")

LegacyNext ==
  \/ \E hasPrompt \in BOOLEAN : LegacyRequest(hasPrompt)
  \/ \E dockerOk \in BOOLEAN : LegacyDockerChecked(dockerOk)
  \/ \E imageOk \in BOOLEAN : LegacyImageEnsured(imageOk)
  \/ \E ok \in BOOLEAN : LegacyGenerated(ok)
  \/ \E testResult \in TestResults : RunTests(testResult)
  \/ \E wrote, ok \in BOOLEAN : FixSettles(wrote, ok)

\* Every container run and every Copilot call settles (spawnStream resolves
\* on close and on error): the handler keeps taking steps while it can.
SpecLegacy == Init /\ [][LegacyNext]_vars /\ WF_vars(LegacyNext)

(***************************************************************************)
(* C37.  The test-and-fix loop of the single-shot /generate handler        *)
(* terminates: it runs the test command at most 4 times and calls          *)
(* fixCodeWithCopilot at most 3 times, a failure of the fix call does not  *)
(* end the loop early, and the response is ended with exactly one terminal *)
(* event: done if some test run exited with code 0, error otherwise.       *)
(***************************************************************************)
TerminalEvents(l) ==
  SelectSeq(l.sent, LAMBDA e : e \in {"done", "error"})

LegacyBounded ==
  /\ legacy.tests <= maxFixes + 1
  /\ legacy.fixes <= maxFixes
  /\ legacy.fixes <= legacy.tests
  /\ IF legacy.ended
       THEN /\ TerminalEvents(legacy)
               = <<IF legacy.passed THEN "done" ELSE "error">>
            /\ legacy.sent[Len(legacy.sent)] \in {"done", "error"}
       ELSE TerminalEvents(legacy) = <<>>

FailedFixGoesOn ==
  (lastCall'.op = "fixCodeWithCopilot" /\ lastCall'.result = "failed")
    => /\ legacy'.pc = "testing"
       /\ ~legacy'.ended
       /\ legacy'.attempt = legacy.attempt + 1

C37_TestFixLoopTerminates ==
  /\ []LegacyBounded
  /\ [][FailedFixGoesOn]_vars
  /\ (legacy.pc /= "idle") ~> legacy.ended

\* three fixes, one of which failed, and a fourth test run that failed too
C37_Witness ==
  /\ legacy.ended
  /\ legacy.tests = maxFixes + 1
  /\ legacy.fixes = maxFixes
  /\ ~legacy.passed
  /\ Len(SelectSeq(legacy.sent, LAMBDA e : e = "agent_log")) = 1
  /\ TerminalEvents(legacy) = <<"error">>

=============================================================================
